---- MODULE Spec2Model ----
(***************************************************************************)
(* Verification model of the numerical core of the climate dashboard:      *)
(* the least-squares trend fit (np.polyfit, degree 1), the bootstrap       *)
(* uncertainty band of the Global Trends page, the two-segment             *)
(* change-point scan, and the process-wide random generator shared by the  *)
(* pages.                                                                  *)
(*                                                                         *)
(* Numbers.  Temperatures are exact rationals [n |-> Int, d |-> Nat \ {0}] *)
(* in lowest terms, or the string "nan" (IEEE not-a-number: every          *)
(* arithmetic result with a nan operand is nan, every comparison with a    *)
(* nan operand is false).  The scan's scores are rationals over arbitrary  *)
(* precision naturals (sequences of base-10000 limbs), because the sums of *)
(* a 101-point series exceed TLC's 32-bit integers.                        *)
(***************************************************************************)
EXTENDS Integers, Sequences, FiniteSets, TLC

VARIABLES
    \* ---- change-point scan (spec 4.4) ----
    sYears,      \* the series' years, strictly increasing
    sValues,     \* the series' values (integers, in units of 0.01 degree)
    candLo,      \* candidateYearsRange, inclusive lower end
    candHi,      \* candidateYearsRange, inclusive upper end
    minSeg,      \* minSegmentLength
    cand,        \* the candidate year the scan is at
    best,        \* [found, year, score]: the best split seen so far
    scanPc,      \* "idle" | "scan" | "done"
    \* ---- one call of np.polyfit(x, y, 1) ----
    fitX,        \* x: the years handed to the fit
    fitY,        \* y: the values handed to the fit
    fitOut,      \* [slope, intercept] returned
    fitPc,       \* "idle" | "call" | "done"
    \* ---- one render of the Global Trends page ----
    data,        \* the loaded rows as annual means: [year with rows -> value]
    yearRange,   \* year_range: the slider's <<first, last>>
    showTrend,   \* show_trend
    showUnc,     \* show_uncertainty
    years,       \* years = anomaly.index.year.values
    temps,       \* temps = anomaly.values
    baseline,    \* baseline
    preIndustrial, \* pre_industrial
    recentAvg,   \* recent
    delta,       \* delta
    slope,       \* slope
    trend,       \* trend: [some, v]; some = FALSE is None
    bootI,       \* number of bootstrap samples appended to preds
    bootIdx,     \* resample_idx of the last sample
    bootX,       \* x of the last sample
    bootY,       \* y of the last sample
    bootFit,     \* boot_slope, boot_intercept of the last sample
    preds,       \* preds: one predicted curve per sample
    uLow,        \* uncertainty_low: [some, v]
    uHigh,       \* uncertainty_high: [some, v]
    bandTrace,   \* the "Bootstrap 90% band" trace: [some, x, y]
    warmRate,    \* the "Warming rate" metric: [shown, v]
    pageErr,     \* "none" or the exception that ended the render
    pagePc,      \* "idle" | "prepare" | "fit" | "guard" | "boot" | "draw" |
                 \* "before" | "metrics" | "done" | "error"
    \* ---- two script runs in one process, sharing numpy's global generator ----
    rng,         \* np.random's global state: [seed, pos]
    runPage,     \* per run: "scenario" (Scenario Explorer) | "trends" (Global Trends)
    runN,        \* per run: samples (scenario) or len(years) (trends)
    runI,        \* per run: number of np.random calls that returned values
    runOut,      \* per run: the values those calls returned, in order
    runPc,       \* per run: "idle" | "seed" | "normal" | "choice" | "done"
    \* ---- one render of the Risk Pulse page ----
    pulseData,   \* the loaded rows as annual means: [year with rows -> value]
    window,      \* window
    volW,        \* volatility_weight
    accW,        \* acceleration_weight
    alertThr,    \* alert_threshold
    pYears,      \* years = anomaly.index.year.values
    pValues,     \* values = anomaly.values
    rollingMean, \* rolling_mean, one entry per year
    rollingStd,  \* rolling_std, one entry per year
    accel,       \* acceleration, one entry per year
    rollYears,   \* roll_years
    rollMean,    \* roll_mean
    rollStd,     \* roll_std
    rollAcc,     \* roll_acc
    stdDevs,     \* <<np.std(roll_mean), np.std(roll_std), np.std(roll_acc)>>
    pulseRaw,    \* pulse_raw
    pulseIndex,  \* pulse_index after np.clip: [some, v]
    latestPulse, \* latest_pulse: [some, v]
    alerts,      \* the years of alerts: [some, v]
    riskState,   \* risk_state, "" before it is set
    pulseMsg,    \* "" or the warning shown by the window guard
    pulseErr,    \* "none" or the exception that ended the render
    pulsePc,     \* "idle" | "load" | "guard" | "rolling" | "scores" | "rescale" |
                 \* "alerts" | "done" | "stopped" | "error"
    \* ---- one call of analyze_climate_data ----
    csvRows,     \* the rows read: [dt, day, v]; dt a month number or 0 (no
                 \* date), v the temperature or NaN (no value)
    df,          \* df after the date repair and dropna(subset=['dt'])
    dfClean,     \* df_clean
    dfCounts,    \* df_counts: one [year, count] per bin
    dfAnnual,    \* df_annual: one [year, mean, anomaly] per year kept
    droppedMsg,  \* the number printed by "Dropping incomplete years": [some, v]
    baselineMean, \* baseline_mean
    trendMsg,    \* the rate printed by "Trend over last 30 years": [some, v]
    topFive,     \* top_5: the [year, anomaly] lines printed
    decadal,     \* decadal.tail(5): the [decade, anomaly] lines printed
    anPc,        \* "idle" | "dates" | "clean" | "annual" | "baseline" | "trend" |
                 \* "report" | "done"
    \* ---- one run of the Recent Acceleration page ----
    accData,     \* the annual means of the loaded rows: [year -> value]
    accYears,    \* anomaly.index.year
    accAnomaly,  \* anomaly.values
    earlyRate,   \* early_rate: None or Some(rate)
    midRate,     \* mid_rate
    recentRate,  \* recent_rate
    accMsg,      \* the interpretation shown: "" | "success" | "info" | "warning"
    accPc,       \* "idle" | "prepare" | "rates" | "interpret" | "done"
    \* ---- one session of app.py ----
    appFile,     \* whether GlobalTemperatures.csv is there
    appRows,     \* the rows read: [dt, day, v]
    widening,    \* whether st.slider widens its range to hold a default
                 \* outside it (TRUE) or rejects such a default (FALSE)
    appDf,       \* df: the rows [dt, day, v] after the date repair
    appRaw,      \* df_raw
    tempCorrected, \* the Temp_Corrected column of df
    appStats,    \* anomaly_stats: None or Some of a record
    showBrief,   \* st.session_state['show_brief']
    buttonShown, \* whether the last run rendered the policy brief button
    pressed,     \* whether the button has been pressed in this session
    briefShown,  \* whether the last run rendered the policy brief
    simRate,     \* sim_warming_rate of the last run: None or Some(rate)
    simRisks,    \* the levels of sim_risks of the last run, or <<>>
    appErr,      \* the exception raised, or ""
    appPc        \* "idle" | "dates" | "train" | "correct" | "ready"

scanVars == <<sYears, sValues, candLo, candHi, minSeg, cand, best, scanPc>>

fitVars == <<fitX, fitY, fitOut, fitPc>>

pageVars == <<data, yearRange, baseline, preIndustrial, recentAvg, delta, showTrend, showUnc,
              years, temps, slope, trend, bootI,
              bootIdx, bootX, bootY, bootFit, preds, uLow, uHigh, bandTrace, warmRate,
              pageErr, pagePc>>

concVars == <<rng, runPage, runN, runI, runOut, runPc>>

pulseVars == <<pulseData, window, volW, accW, alertThr, pYears, pValues, rollingMean,
               rollingStd, accel, rollYears, rollMean, rollStd, rollAcc, stdDevs, pulseRaw,
               pulseIndex, latestPulse, alerts, riskState, pulseMsg, pulseErr, pulsePc>>

anVars == <<csvRows, df, dfClean, dfCounts, dfAnnual, droppedMsg, baselineMean, trendMsg,
            topFive, decadal, anPc>>

accVars == <<accData, accYears, accAnomaly, earlyRate, midRate, recentRate, accMsg, accPc>>

appVars == <<appFile, appRows, widening, appDf, appRaw, tempCorrected, appStats, showBrief,
             buttonShown, pressed, briefShown, simRate, simRisks, appErr, appPc>>

vars == <<scanVars, fitVars, pageVars, concVars, pulseVars, anVars, accVars, appVars>>

otherThanScan == <<fitVars, pageVars, concVars, pulseVars, anVars, accVars, appVars>>
otherThanFit == <<scanVars, pageVars, concVars, pulseVars, anVars, accVars, appVars>>
otherThanPage == <<scanVars, fitVars, concVars, pulseVars, anVars, accVars, appVars>>
otherThanConc == <<scanVars, fitVars, pageVars, pulseVars, anVars, accVars, appVars>>
otherThanPulse == <<scanVars, fitVars, pageVars, concVars, anVars, accVars, appVars>>
otherThanAn == <<scanVars, fitVars, pageVars, concVars, pulseVars, accVars, appVars>>
otherThanAcc == <<scanVars, fitVars, pageVars, concVars, pulseVars, anVars, appVars>>
otherThanApp == <<scanVars, fitVars, pageVars, concVars, pulseVars, anVars, accVars>>

(***************************************************************************)
(* Integer helpers                                                         *)
(***************************************************************************)
Abs(i) == IF i < 0 THEN -i ELSE i

Min2(a, b) == IF a <= b THEN a ELSE b

RECURSIVE Gcd(_, _)
Gcd(a, b) == IF b = 0 THEN a ELSE Gcd(b, a % b)

(***************************************************************************)
(* Floating-point values as exact rationals in lowest terms, d > 0; d = 0  *)
(* is NaN.  An operation with a NaN operand gives NaN, a comparison with a *)
(* NaN operand is false.                                                   *)
(***************************************************************************)
NaN == [n |-> 0, d |-> 0]

IsNaN(a) == a.d = 0

RNorm(n, d) == LET g == Gcd(Abs(n), d) IN [n |-> n \div g, d |-> d \div g]

R(i) == [n |-> i, d |-> 1]

RNeg(a) == IF IsNaN(a) THEN NaN ELSE [n |-> -a.n, d |-> a.d]

RAdd(a, b) ==
    IF IsNaN(a) \/ IsNaN(b) THEN NaN
    ELSE LET g == Gcd(a.d, b.d)
         IN  RNorm(a.n * (b.d \div g) + b.n * (a.d \div g), (a.d \div g) * b.d)

RSub(a, b) == RAdd(a, RNeg(b))

RMul(a, b) ==
    IF IsNaN(a) \/ IsNaN(b) THEN NaN
    ELSE LET g1 == Gcd(Abs(a.n), b.d)
             g2 == Gcd(Abs(b.n), a.d)
         IN  [n |-> (a.n \div g1) * (b.n \div g2), d |-> (a.d \div g2) * (b.d \div g1)]

\* a / k for an integer k > 0
RDivInt(a, k) == RMul(a, RNorm(1, k))

\* a / k for an integer k # 0
RDivBy(a, k) == IF k > 0 THEN RDivInt(a, k) ELSE RNeg(RDivInt(a, -k))

(***************************************************************************)
(* Arbitrary precision naturals: little-endian sequences of limbs in       *)
(* 0 .. LimbBase-1 without leading (most significant) zero limbs; <<>> is  *)
(* zero.                                                                   *)
(***************************************************************************)
LimbBase == 100 * 100

RECURSIVE BFromInt(_)
BFromInt(i) == IF i = 0 THEN <<>> ELSE <<i % LimbBase>> \o BFromInt(i \div LimbBase)

RECURSIVE BStrip(_)
BStrip(a) ==
    IF a = <<>> THEN <<>>
    ELSE IF a[Len(a)] = 0 THEN BStrip(SubSeq(a, 1, Len(a) - 1))
    ELSE a

BLimb(a, i) == IF i <= Len(a) THEN a[i] ELSE 0

RECURSIVE BAddFrom(_, _, _, _)
BAddFrom(a, b, i, carry) ==
    IF i > Len(a) /\ i > Len(b)
    THEN IF carry = 0 THEN <<>> ELSE <<carry>>
    ELSE LET t == BLimb(a, i) + BLimb(b, i) + carry
         IN  <<t % LimbBase>> \o BAddFrom(a, b, i + 1, t \div LimbBase)

BAdd(a, b) == BAddFrom(a, b, 1, 0)

\* a - b for a >= b
RECURSIVE BSubFrom(_, _, _, _)
BSubFrom(a, b, i, borrow) ==
    IF i > Len(a) THEN <<>>
    ELSE LET t == BLimb(a, i) - BLimb(b, i) - borrow
         IN  IF t < 0
             THEN <<t + LimbBase>> \o BSubFrom(a, b, i + 1, 1)
             ELSE <<t>> \o BSubFrom(a, b, i + 1, 0)

BSub(a, b) == BStrip(BSubFrom(a, b, 1, 0))

RECURSIVE BMulLimbFrom(_, _, _, _)
BMulLimbFrom(a, k, i, carry) ==
    IF i > Len(a)
    THEN IF carry = 0 THEN <<>> ELSE <<carry>>
    ELSE LET t == a[i] * k + carry
         IN  <<t % LimbBase>> \o BMulLimbFrom(a, k, i + 1, t \div LimbBase)

RECURSIVE BMulFrom(_, _, _)
BMulFrom(a, b, j) ==
    IF j > Len(b) THEN <<>>
    ELSE BAdd(BMulLimbFrom(a, b[j], 1, 0), <<0>> \o BMulFrom(a, b, j + 1))

BMul(a, b) == BStrip(BMulFrom(a, b, 1))

\* -1, 0, 1 as a < b, a = b, a > b
RECURSIVE BCmpFrom(_, _, _)
BCmpFrom(a, b, i) ==
    IF i = 0 THEN 0
    ELSE IF a[i] < b[i] THEN -1
    ELSE IF a[i] > b[i] THEN 1
    ELSE BCmpFrom(a, b, i - 1)

BCmp(a, b) ==
    IF Len(a) < Len(b) THEN -1
    ELSE IF Len(a) > Len(b) THEN 1
    ELSE BCmpFrom(a, b, Len(a))

\* Non-negative rationals over the big naturals: [num, den], den > 0.
QZero == [num |-> <<>>, den |-> <<1>>]

QAdd(p, q) ==
    [num |-> BAdd(BMul(p.num, q.den), BMul(q.num, p.den)),
     den |-> BMul(p.den, q.den)]

QLess(p, q) == BCmp(BMul(p.num, q.den), BMul(q.num, p.den)) < 0

QEq(p, q) == BCmp(BMul(p.num, q.den), BMul(q.num, p.den)) = 0

QIsZero(p) == p.num = <<>>

\* -1, 0, 1 as a < b, a = b, a > b, for rationals that are not NaN; cross
\* products that may not fit a machine integer are taken over the big naturals.
RCmp(a, b) ==
    LET l == BMul(BFromInt(Abs(a.n)), BFromInt(b.d))
        r == BMul(BFromInt(Abs(b.n)), BFromInt(a.d))
        small == \A x \in {a.n, a.d, b.n, b.d} : Abs(x) < 2 ^ 15
        diff == a.n * b.d - b.n * a.d
    IN  IF small THEN (IF diff < 0 THEN -1 ELSE IF diff = 0 THEN 0 ELSE 1)
        ELSE IF a.n >= 0 /\ b.n >= 0 THEN BCmp(l, r)
        ELSE IF a.n < 0 /\ b.n < 0 THEN BCmp(r, l)
        ELSE IF a.n < 0 THEN -1
        ELSE 1

RLe(a, b) == ~IsNaN(a) /\ ~IsNaN(b) /\ RCmp(a, b) <= 0

RLt(a, b) == ~IsNaN(a) /\ ~IsNaN(b) /\ RCmp(a, b) < 0

(***************************************************************************)
(* TrendFitter's sums.  SegSums adds up, over the points a..b of a series, *)
(* the moments the normal equations need.  Years and values are taken      *)
(* relative to the segment's first point: centring changes neither the     *)
(* fitted line nor its residuals (spec 4.2).                               *)
(***************************************************************************)
RECURSIVE SegSumsFrom(_, _, _, _, _, _)
SegSumsFrom(xs, ys, a, b, x0, y0) ==
    IF a > b
    THEN [n |-> 0, sx |-> 0, sy |-> 0, sxx |-> 0, sxy |-> 0, syy |-> 0]
    ELSE IF a = b
    THEN LET u == xs[a] - x0
             v == ys[a] - y0
         IN  [n |-> 1, sx |-> u, sy |-> v, sxx |-> u * u, sxy |-> u * v, syy |-> v * v]
    ELSE LET mid == (a + b) \div 2
             l == SegSumsFrom(xs, ys, a, mid, x0, y0)
             r == SegSumsFrom(xs, ys, mid + 1, b, x0, y0)
         IN  [n   |-> l.n + r.n,
              sx  |-> l.sx + r.sx,
              sy  |-> l.sy + r.sy,
              sxx |-> l.sxx + r.sxx,
              sxy |-> l.sxy + r.sxy,
              syy |-> l.syy + r.syy]

SegSums(xs, ys, a, b) == SegSumsFrom(xs, ys, a, b, xs[a], ys[a])

\* n * (variance of the years), n * (covariance), n * (variance of the values)
DetXX(m) == m.n * m.sxx - m.sx * m.sx
DetXY(m) == m.n * m.sxy - m.sx * m.sy
DetYY(m) == m.n * m.syy - m.sy * m.sy

(***************************************************************************)
(* Residual sum of squares of the least-squares line through the points    *)
(* a..b: RSS = (DetYY*DetXX - DetXY^2) / (n * DetXX), an exact rational.   *)
(* Defined for segments with at least 2 distinct years (DetXX > 0).        *)
(***************************************************************************)
SegRSS(xs, ys, a, b) ==
    LET m == SegSums(xs, ys, a, b)
        sq == BFromInt(Abs(DetXY(m)))
    IN  [num |-> BSub(BMul(BFromInt(DetYY(m)), BFromInt(DetXX(m))), BMul(sq, sq)),
         den |-> BFromInt(m.n * DetXX(m))]

(***************************************************************************)
(* ChangePointScanner.scan (spec 4.4)                                      *)
(***************************************************************************)
\* Mutant: the split year goes to the right partition.
LeftLenExclusive(xs, Y) == Cardinality({i \in 1..Len(xs) : xs[i] < Y})

\* Number of points with year <= Y; the series is sorted, so they are a prefix.
LeftLen(xs, Y) == Cardinality({i \in 1..Len(xs) : xs[i] <= Y})

RightLen(xs, Y) == Len(xs) - LeftLen(xs, Y)

\* Mutant: more than k points are asked of each partition.
EligibleStrict(xs, Y, k) == LeftLen(xs, Y) > k /\ RightLen(xs, Y) > k

\* Both partitions of candidate Y have at least k points.
Eligible(xs, Y, k) == LeftLen(xs, Y) >= k /\ RightLen(xs, Y) >= k

\* score = RSS of the left fit + RSS of the right fit
SplitScore(xs, ys, Y) ==
    QAdd(SegRSS(xs, ys, 1, LeftLen(xs, Y)),
         SegRSS(xs, ys, LeftLen(xs, Y) + 1, Len(xs)))

\* Mutant: a later candidate with an equal score replaces the best one.
ScanBetterOrEqual(score, b) == ~b.found \/ ~QLess(b.score, score)

\* Strict less-than: a later candidate with an equal score does not replace.
ScanBetter(score, b) == ~b.found \/ QLess(score, b.score)

\* The scan's update for one candidate year.
ScanUpdate(xs, ys, Y, k, b) ==
    IF ~Eligible(xs, Y, k) THEN b
    ELSE LET s == SplitScore(xs, ys, Y)
         IN  IF ScanBetter(s, b) THEN [found |-> TRUE, year |-> Y, score |-> s] ELSE b

\* "no change point found": the scan's value before any eligible candidate.
NoChangePoint == [found |-> FALSE, year |-> 0, score |-> QZero]

(***************************************************************************)
(* The scan's inputs.  Small series: increasing years within a window of   *)
(* MaxSpan years, values 0..MaxVal; every candidate range around the       *)
(* window; minSegmentLength 2..MaxMinSeg (a fit needs 2 distinct years).   *)
(* Two-segment series (spec 8): 1900..2000, slope 0.01 up to 1950 and 0.05 *)
(* from 1951, in units of 0.01; where the second line starts is not fixed  *)
(* by the spec, so the value at 1951 is the value at 1950 plus 5 plus a    *)
(* jump in -MaxJump..MaxJump (jump 0: the continuous series).              *)
(***************************************************************************)
MaxSpan == 5
MaxVal == 2
MaxMinSeg == 3
MaxJump == 4

SegStart == 1900
SegBreak == 1950
SegEnd == 2000
DefaultMinSeg == 10

\* Sequences over S of length n, strictly increasing
RECURSIVE IncSeqs(_, _, _)
IncSeqs(lo, hi, n) ==
    IF n = 0 THEN {<<>>}
    ELSE UNION {{<<f>> \o t : t \in IncSeqs(f + 1, hi, n - 1)} : f \in lo..hi}

SmallYears == UNION {IncSeqs(SegStart, SegStart + MaxSpan - 1, n) : n \in 4..MaxSpan}

TwoSegYears == [i \in 1..(SegEnd - SegStart + 1) |-> SegStart + i - 1]

TwoSegValues(j) ==
    [i \in 1..(SegEnd - SegStart + 1) |->
        LET y == SegStart + i - 1
        IN  IF y <= SegBreak THEN y - SegStart
            ELSE (SegBreak - SegStart) + j + 5 * (y - SegBreak)]

TwoSegRanges ==
    {<<SegStart, SegEnd>>, <<SegBreak - 10, SegBreak + 10>>,
     <<SegBreak, SegBreak>>, <<SegBreak, SegEnd>>}

ScanStart(ys, vs, lo, hi, k) ==
    /\ sYears = ys
    /\ sValues = vs
    /\ candLo = lo
    /\ candHi = hi
    /\ minSeg = k
    /\ cand = lo
    /\ best = NoChangePoint
    /\ scanPc = "scan"

ScanInit ==
    \/ \E ys \in SmallYears :
           \E vs \in [1..Len(ys) -> 0..MaxVal] :
               \E lo \in {SegStart - 1, SegStart + 1, SegStart + 3},
                  hi \in {SegStart + 2, SegStart + MaxSpan},
                  k \in 2..MaxMinSeg :
                   ScanStart(ys, vs, lo, hi, k)
    \/ \E j \in -MaxJump..MaxJump :
           \E r \in TwoSegRanges :
               ScanStart(TwoSegYears, TwoSegValues(j), r[1], r[2], DefaultMinSeg)

\* One iteration of the scan's loop over the candidate years, ascending.
ScanStep ==
    /\ scanPc = "scan"
    /\ cand <= candHi
    /\ best' = ScanUpdate(sYears, sValues, cand, minSeg, best)
    /\ cand' = cand + 1
    /\ UNCHANGED <<sYears, sValues, candLo, candHi, minSeg, scanPc>>
    /\ UNCHANGED otherThanScan

\* The loop is over: best is the ChangePointResult.
ScanReturn ==
    /\ scanPc = "scan"
    /\ cand > candHi
    /\ scanPc' = "done"
    /\ UNCHANGED <<sYears, sValues, candLo, candHi, minSeg, cand, best>>
    /\ UNCHANGED otherThanScan


(***************************************************************************)
(* np.polyfit(x, y, 1): the least-squares line through the points          *)
(* (x[i], y[i]), as [slope, intercept].                                    *)
(*  - a NaN in y makes both coefficients NaN (lstsq carries it through);   *)
(*  - when all x are equal the system has rank 1 and lstsq returns, with   *)
(*    a RankWarning and no error, the minimum-norm solution of the         *)
(*    column-scaled system: slope = mean(y) / (2 x), intercept = mean(y)/2;*)
(*  - otherwise slope = cov(x, y) / var(x), intercept = mean(y) -          *)
(*    slope * mean(x).  The sums are taken over x - x[1]: the line is the  *)
(*    same and the integers stay small.                                    *)
(***************************************************************************)
RECURSIVE FitSumsFrom(_, _, _, _)
FitSumsFrom(xs, ys, a, b) ==
    IF a > b THEN [n |-> 0, su |-> 0, suu |-> 0, sy |-> R(0), suy |-> R(0)]
    ELSE IF a = b
    THEN LET u == xs[a] - xs[1]
         IN  [n |-> 1, su |-> u, suu |-> u * u, sy |-> ys[a], suy |-> RMul(R(u), ys[a])]
    ELSE LET mid == (a + b) \div 2
             l == FitSumsFrom(xs, ys, a, mid)
             r == FitSumsFrom(xs, ys, mid + 1, b)
         IN  [n   |-> l.n + r.n,
              su  |-> l.su + r.su,
              suu |-> l.suu + r.suu,
              sy  |-> RAdd(l.sy, r.sy),
              suy |-> RAdd(l.suy, r.suy)]

\* Mutant: the intercept is taken at the first year instead of at year 0.
PolyFitShifted(xs, ys) ==
    LET m == FitSumsFrom(xs, ys, 1, Len(xs))
        dxx == m.n * m.suu - m.su * m.su
        sl == RDivInt(RSub(RMul(R(m.n), m.suy), RMul(R(m.su), m.sy)), dxx)
    IN  IF dxx = 0 THEN [slope |-> R(0), intercept |-> RDivInt(m.sy, m.n)]
        ELSE [slope |-> sl,
              intercept |-> RSub(RDivInt(m.sy, m.n), RMul(sl, RNorm(m.su, m.n)))]

PolyFit(xs, ys) ==
    LET m == FitSumsFrom(xs, ys, 1, Len(xs))
        dxx == m.n * m.suu - m.su * m.su
        dxy == RSub(RMul(R(m.n), m.suy), RMul(R(m.su), m.sy))
        sl == RDivInt(dxy, dxx)
        xbar == RNorm(m.n * xs[1] + m.su, m.n)
    IN  IF IsNaN(m.sy) THEN [slope |-> NaN, intercept |-> NaN]
        ELSE IF dxx = 0
        THEN [slope |-> RDivBy(RDivInt(m.sy, m.n), 2 * xs[1]),
              intercept |-> RDivInt(RDivInt(m.sy, m.n), 2)]
        ELSE [slope |-> sl,
              intercept |-> RSub(RDivInt(m.sy, m.n), RMul(sl, xbar))]

\* slope * year + intercept
Predict(fit, year) == RAdd(RMul(fit.slope, R(year)), fit.intercept)

\* Sum over i of (y[i] - (slope * x[i] + intercept))^2
RECURSIVE SqErrFrom(_, _, _, _)
SqErrFrom(fit, xs, ys, i) ==
    IF i > Len(xs) THEN R(0)
    ELSE LET e == RSub(ys[i], Predict(fit, xs[i]))
         IN  RAdd(RMul(e, e), SqErrFrom(fit, xs, ys, i + 1))

SqErr(fit, xs, ys) == SqErrFrom(fit, xs, ys, 1)

DistinctYears(xs) == Cardinality({xs[i] : i \in 1..Len(xs)})

(***************************************************************************)
(* One call of the fit on its own: any sequence of 2..MaxFitLen points     *)
(* with years in FitYears (repeated years allowed, as in a bootstrap       *)
(* resample) and values in FitVals.                                        *)
(***************************************************************************)
MaxFitLen == 3
FitYears == {1900, 1901, 1903}
FitVals == {0, 1, 3}
FitYear0 == CHOOSE y \in FitYears : \A z \in FitYears : y <= z

FitInit ==
    \E n \in 2..MaxFitLen :
        \E xs \in [1..n -> FitYears] :
            \E ys \in [1..n -> {R(v) : v \in FitVals}] :
                /\ fitX = xs
                /\ fitY = ys
                /\ fitOut = [slope |-> NaN, intercept |-> NaN]
                /\ fitPc = "call"

FitCall ==
    /\ fitPc = "call"
    /\ fitOut' = PolyFit(fitX, fitY)
    /\ fitPc' = "done"
    /\ UNCHANGED <<fitX, fitY>>
    /\ UNCHANGED otherThanFit

(***************************************************************************)
(* The Global Trends page: one run of the script from the year filter to   *)
(* the "Key Signals" metrics.                                              *)
(*                                                                         *)
(* The loaded data frame is held as its annual means (the filter keeps or  *)
(* drops whole years, so a year's mean does not depend on it), in units of *)
(* 0.1 degree.                                                             *)
(***************************************************************************)
BaselineFirst == 1850
BaselineLast == 1900
MinBandLen == 10
LowPct == 5
HighPct == 95
PerDecade == 10

\* The page draws 600 samples (line 80); the model draws MaxSamples.
MaxSamples == 2

None == [some |-> FALSE, v |-> <<>>]

Some(x) == [some |-> TRUE, v |-> x]

SetMin(S) == CHOOSE x \in S : \A y \in S : x <= y

SetMax(S) == CHOOSE x \in S : \A y \in S : x >= y

\* df[(df.index.year >= year_range[0]) & (df.index.year <= year_range[1])]
FilterYears(d, yr) == {y \in DOMAIN d : y >= yr[1] /\ y <= yr[2]}

\* resample("YE"): one bin per calendar year from the first to the last year
\* that has rows; none for an empty frame.
AnnualIndex(d, yr) ==
    LET sel == FilterYears(d, yr)
    IN  IF sel = {} THEN <<>>
        ELSE [i \in 1..(SetMax(sel) - SetMin(sel) + 1) |-> SetMin(sel) + i - 1]

\* .mean() of each bin: NaN for a year without rows.
AnnualValues(d, yr) ==
    LET idx == AnnualIndex(d, yr)
    IN  [i \in 1..Len(idx) |-> IF idx[i] \in FilterYears(d, yr) THEN d[idx[i]] ELSE NaN]

RECURSIVE RSumSet(_, _)
RSumSet(f, S) ==
    IF S = {} THEN R(0)
    ELSE LET x == CHOOSE x \in S : TRUE IN RAdd(f[x], RSumSet(f, S \ {x}))

\* Series.mean(): the mean of the values that are not NaN; NaN if there are none.
SeriesMean(vals, S) ==
    LET ok == {i \in S : ~IsNaN(vals[i])}
    IN  IF ok = {} THEN NaN ELSE RDivInt(RSumSet(vals, ok), Cardinality(ok))

\* annual.loc["1850":"1900"].mean()
Baseline(d, yr) ==
    LET idx == AnnualIndex(d, yr)
    IN  SeriesMean(AnnualValues(d, yr),
                   {i \in 1..Len(idx) : idx[i] >= BaselineFirst /\ idx[i] <= BaselineLast})

\* anomaly = annual - baseline
Anomaly(d, yr) ==
    LET a == AnnualValues(d, yr)
        b == Baseline(d, yr)
    IN  [i \in 1..Len(a) |-> RSub(a[i], b)]

\* Lines 41-49.
Prepare ==
    /\ pagePc = "prepare"
    /\ years' = AnnualIndex(data, yearRange)
    /\ temps' = Anomaly(data, yearRange)
    /\ baseline' = Baseline(data, yearRange)
    /\ pagePc' = "fit"
    /\ UNCHANGED <<data, yearRange, preIndustrial, recentAvg, delta,
                   showTrend, showUnc, slope, trend, bootI, bootIdx,
                   bootX, bootY, bootFit, preds, uLow, uHigh, bandTrace, warmRate, pageErr>>
    /\ UNCHANGED otherThanPage

\* Lines 51-55: the fit, or slope = 0 and no trend line for fewer than 2 points.
FitTrend ==
    /\ pagePc = "fit"
    /\ IF Len(years) > 1
       THEN LET f == PolyFit(years, temps)
            IN  /\ slope' = f.slope
                /\ trend' = Some([i \in 1..Len(years) |-> Predict(f, years[i])])
       ELSE /\ slope' = R(0)
            /\ trend' = None
    /\ pagePc' = "before"
    /\ UNCHANGED <<data, yearRange, preIndustrial, recentAvg, delta, baseline,
                   showTrend, showUnc, years, temps, bootI, bootIdx,
                   bootX, bootY, bootFit, preds, uLow, uHigh, bandTrace, warmRate, pageErr>>
    /\ UNCHANGED otherThanPage

RecentYears == 10

\* annual.iloc[-recent_years:], recent_years = min(10, len(annual)), as positions
LastPositions(n) == IF n <= RecentYears THEN 1..n ELSE (n - RecentYears + 1)..n

\* Lines 56-70: "Before vs Now", computed from the filtered annual series.
BeforeNow ==
    /\ pagePc = "before"
    /\ LET annual == AnnualValues(data, yearRange)
           pre == Baseline(data, yearRange)
           rec == SeriesMean(annual, LastPositions(Len(annual)))
       IN  /\ preIndustrial' = pre
           /\ recentAvg' = rec
           /\ delta' = RSub(rec, pre)
    /\ pagePc' = "guard"
    /\ UNCHANGED <<data, yearRange, baseline, showTrend, showUnc, years, temps, slope, trend,
                   bootI, bootIdx, bootX, bootY, bootFit, preds, uLow, uHigh, bandTrace,
                   warmRate, pageErr>>
    /\ UNCHANGED otherThanPage

\* Lines 76-79: the band is computed for more than 10 points, when asked for.
BandGuard ==
    /\ pagePc = "guard"
    /\ pagePc' = IF showUnc /\ Len(years) > MinBandLen THEN "boot" ELSE "draw"
    /\ UNCHANGED <<data, yearRange, preIndustrial, recentAvg, delta, baseline,
                   showTrend, showUnc, years, temps, slope, trend, bootI,
                   bootIdx, bootX, bootY, bootFit, preds, uLow, uHigh, bandTrace,
                   warmRate, pageErr>>
    /\ UNCHANGED otherThanPage

(***************************************************************************)
(* np.random.choice(n, n, replace=True) can return any of the n^n index    *)
(* vectors.  The model draws from a family of them: every index once (the  *)
(* series itself), one index n times, and two indices in turns, the        *)
(* indices being the first, the middle and the last.                       *)
(***************************************************************************)
DrawIdx(n) == {1, n \div 2 + 1, n}

Resamples(n) ==
    {[k \in 1..n |-> k]}
        \cup {[k \in 1..n |-> i] : i \in DrawIdx(n)}
        \cup {[k \in 1..n |-> IF k % 2 = 1 THEN i ELSE j] : i \in DrawIdx(n), j \in DrawIdx(n)}

\* a[resample_idx]
Take(a, idx) == [k \in 1..Len(idx) |-> a[idx[k]]]

\* Mutant: the fitted line is evaluated at the resampled years.
CurveAtSample(f, ys, xs) == [i \in 1..Len(xs) |-> Predict(f, xs[i])]

\* boot_slope * years + boot_intercept
Curve(f, ys, xs) == [i \in 1..Len(ys) |-> Predict(f, ys[i])]

\* Lines 82-87: one bootstrap sample.
BootSample ==
    /\ pagePc = "boot"
    /\ bootI < MaxSamples
    /\ \E idx \in Resamples(Len(years)) :
           LET x == Take(years, idx)
               y == Take(temps, idx)
               f == PolyFit(x, y)
           IN  /\ bootIdx' = idx
               /\ bootX' = x
               /\ bootY' = y
               /\ bootFit' = f
               /\ preds' = Append(preds, Curve(f, years, x))
    /\ bootI' = bootI + 1
    /\ UNCHANGED <<data, yearRange, preIndustrial, recentAvg, delta, baseline,
                   showTrend, showUnc, years, temps, slope, trend, uLow,
                   uHigh, bandTrace, warmRate, pageErr, pagePc>>
    /\ UNCHANGED otherThanPage

\* Insertion into an ascending sequence.
RECURSIVE InsertSorted(_, _)
InsertSorted(x, s) ==
    IF s = <<>> THEN <<x>>
    ELSE IF RLe(x, Head(s)) THEN <<x>> \o s
    ELSE <<Head(s)>> \o InsertSorted(x, Tail(s))

RECURSIVE SortAsc(_)
SortAsc(s) == IF s = <<>> THEN <<>> ELSE InsertSorted(Head(s), SortAsc(Tail(s)))

\* np.percentile(col, q): linear interpolation between the two order
\* statistics around position q/100 * (len - 1); NaN if any value is NaN.
Percentile(col, q) ==
    LET s == SortAsc(col)
        h == q * (Len(col) - 1)
        lo == h \div 100 + 1
    IN  IF \E i \in 1..Len(col) : IsNaN(col[i]) THEN NaN
        ELSE IF h % 100 = 0 THEN s[lo]
        ELSE RAdd(s[lo], RMul(RNorm(h % 100, 100), RSub(s[lo + 1], s[lo])))

\* np.percentile(preds, q, axis=0)
PercentileRows(rows, q, n) ==
    [i \in 1..n |-> Percentile([r \in 1..Len(rows) |-> rows[r][i]], q)]

\* Lines 88-90.
BootBand ==
    /\ pagePc = "boot"
    /\ bootI = MaxSamples
    /\ uLow' = Some(PercentileRows(preds, LowPct, Len(years)))
    /\ uHigh' = Some(PercentileRows(preds, HighPct, Len(years)))
    /\ pagePc' = "draw"
    /\ UNCHANGED <<data, yearRange, preIndustrial, recentAvg, delta, baseline,
                   showTrend, showUnc, years, temps, slope, trend, bootI,
                   bootIdx, bootX, bootY, bootFit, preds, bandTrace, warmRate, pageErr>>
    /\ UNCHANGED otherThanPage

Reverse(s) == [i \in 1..Len(s) |-> s[Len(s) + 1 - i]]

\* Lines 92-133: the chart.  years[-1] (line 96) raises IndexError for an
\* empty series; the band is drawn when asked for and computed.
Draw ==
    /\ pagePc = "draw"
    /\ IF Len(years) = 0
       THEN /\ pageErr' = "IndexError"
            /\ pagePc' = "error"
            /\ UNCHANGED bandTrace
       ELSE /\ bandTrace' =
                  IF showUnc /\ uLow.some
                  THEN [some |-> TRUE, x |-> years \o Reverse(years),
                        y |-> uLow.v \o Reverse(uHigh.v)]
                  ELSE bandTrace
            /\ pagePc' = "metrics"
            /\ UNCHANGED pageErr
    /\ UNCHANGED <<data, yearRange, preIndustrial, recentAvg, delta, baseline,
                   showTrend, showUnc, years, temps, slope, trend, bootI,
                   bootIdx, bootX, bootY, bootFit, preds, uLow, uHigh, warmRate>>
    /\ UNCHANGED otherThanPage

\* Line 139: "Warming rate" = slope * 10.
Metrics ==
    /\ pagePc = "metrics"
    /\ warmRate' = [shown |-> TRUE, v |-> RMul(slope, R(PerDecade))]
    /\ pagePc' = "done"
    /\ UNCHANGED <<data, yearRange, preIndustrial, recentAvg, delta, baseline,
                   showTrend, showUnc, years, temps, slope, trend, bootI,
                   bootIdx, bootX, bootY, bootFit, preds, uLow, uHigh, bandTrace, pageErr>>
    /\ UNCHANGED otherThanPage

(***************************************************************************)
(* The page's inputs: a data set and the widgets.  Data sets: 13           *)
(* consecutive years around the end of the baseline period, the same with  *)
(* two years without rows, and 12 years after the baseline period; values  *)
(* constant, or rising unevenly after 1900 and up to 1900 either constant  *)
(* or 138 and 144 in turns (every run of such years has a whole mean).     *)
(***************************************************************************)
DataYearSets == {1897..1909, (1897..1909) \ {1902, 1903}, 1901..1912}

DataValue(shape, y) ==
    IF shape = "flat" THEN 140
    ELSE IF y <= BaselineLast
    THEN (IF shape = "rise" THEN 140 ELSE IF y % 2 = 1 THEN 138 ELSE 144)
    ELSE 140 + (y - BaselineLast) \div 2 + (y % 3) \div 2

DataSets == {[y \in ys |-> R(DataValue(sh, y))] : ys \in DataYearSets, sh \in {"flat", "rise", "uneven"}}

PageStart(d, yr, st, su, ys, ts, pc) ==
    /\ data = d
    /\ yearRange = yr
    /\ showTrend = st
    /\ showUnc = su
    /\ years = ys
    /\ temps = ts
    /\ baseline = NaN
    /\ preIndustrial = NaN
    /\ recentAvg = NaN
    /\ delta = NaN
    /\ slope = R(0)
    /\ trend = None
    /\ bootI = 0
    /\ bootIdx = <<>>
    /\ bootX = <<>>
    /\ bootY = <<>>
    /\ bootFit = [slope |-> NaN, intercept |-> NaN]
    /\ preds = <<>>
    /\ uLow = None
    /\ uHigh = None
    /\ bandTrace = [some |-> FALSE, x |-> <<>>, y |-> <<>>]
    /\ warmRate = [shown |-> FALSE, v |-> R(0)]
    /\ pageErr = "none"
    /\ pagePc = pc

\* The slider runs from the first to the last year of the data.
PageInit ==
    \E d \in DataSets :
        \E lo \in SetMin(DOMAIN d)..SetMax(DOMAIN d) :
            \E hi \in lo..SetMax(DOMAIN d) :
                \E st \in BOOLEAN, su \in BOOLEAN :
                    PageStart(d, <<lo, hi>>, st, su, <<>>, <<>>, "prepare")

\* The band estimator on its own, on the series value = 2 * year - 3000 over
\* 1900..2000: the render is entered at the band guard with the band asked for.
LineYears == [i \in 1..101 |-> 1899 + i]

LineValue(y) == 2 * y - 3000

LineValues == [i \in 1..Len(LineYears) |-> R(LineValue(LineYears[i]))]

BandInit ==
    \E st \in BOOLEAN :
        PageStart(<<>>, <<LineYears[1], LineYears[Len(LineYears)]>>, st, TRUE,
                  LineYears, LineValues, "guard")

PageIdle == PageStart(<<>>, <<0, 0>>, FALSE, FALSE, <<>>, <<>>, "idle")

PageNext ==
    \/ Prepare
    \/ FitTrend
    \/ BeforeNow
    \/ BandGuard
    \/ BootSample
    \/ BootBand
    \/ Draw
    \/ Metrics

(***************************************************************************)
(* Two script runs in one process.  Streamlit runs each session's script   *)
(* in its own thread of the server process, and np.random.seed,            *)
(* np.random.normal and np.random.choice all work on numpy's one global    *)
(* generator.  A call is atomic (the generator is locked during a call);   *)
(* the calls of two runs interleave.                                       *)
(*                                                                         *)
(* The generator's state is [seed, pos]: the seed it was last seeded with  *)
(* and how many values it has produced since.  A call for n values returns *)
(* the values at positions pos+1..pos+n of that seed's stream, written     *)
(* [seed, from, count], and moves pos by n.  Values at different positions *)
(* or of different seeds are taken to differ.                              *)
(***************************************************************************)
ScenarioSeed == 7

Runs == {1, 2}

\* The n values the generator returns in state g.
Drawn(g, n) == [seed |-> g.seed, from |-> g.pos, count |-> n]

\* The generator after returning n values.
Advance(g, n) == [seed |-> g.seed, pos |-> g.pos + n]

\* np.random.seed(sd)
Reseed(g, sd) == [seed |-> sd, pos |-> 0]

\* 4_Scenario_Explorer.py line 35: np.random.seed(7)
Seed(r) ==
    /\ runPc[r] = "seed"
    /\ rng' = Reseed(rng, ScenarioSeed)
    /\ runPc' = [runPc EXCEPT ![r] = "normal"]
    /\ UNCHANGED <<runPage, runN, runI, runOut>>
    /\ UNCHANGED otherThanConc

\* 4_Scenario_Explorer.py line 37: sim_rates = np.random.normal(rate, rate_uncertainty, samples)
Normal(r) ==
    /\ runPc[r] = "normal"
    /\ runOut' = [runOut EXCEPT ![r] = Append(@, Drawn(rng, runN[r]))]
    /\ rng' = Advance(rng, runN[r])
    /\ runI' = [runI EXCEPT ![r] = @ + 1]
    /\ runPc' = [runPc EXCEPT ![r] = "done"]
    /\ UNCHANGED <<runPage, runN>>
    /\ UNCHANGED otherThanConc

\* 1_Global_Trends.py lines 81-82: one pass of the sample loop,
\* resample_idx = np.random.choice(len(years), len(years), replace=True)
Choice(r) ==
    /\ runPc[r] = "choice"
    /\ runOut' = [runOut EXCEPT ![r] = Append(@, Drawn(rng, runN[r]))]
    /\ rng' = Advance(rng, runN[r])
    /\ runI' = [runI EXCEPT ![r] = @ + 1]
    /\ runPc' = [runPc EXCEPT ![r] = IF runI[r] + 1 = MaxSamples THEN "done" ELSE "choice"]
    /\ UNCHANGED <<runPage, runN>>
    /\ UNCHANGED otherThanConc

\* Scenario Explorer's "Number of simulations" (200..2000, 600 at first), and
\* series lengths for which Global Trends computes the band.
ScenarioSamples == {200, 600}

TrendsLengths == {11, 66}

RunInputs ==
    {[page |-> "scenario", n |-> n] : n \in ScenarioSamples}
        \cup {[page |-> "trends", n |-> n] : n \in TrendsLengths}

\* The generator as earlier runs left it: seeded by the process (0) or by a
\* Scenario Explorer run, and some values on.
ConcInit ==
    \E in1 \in RunInputs, in2 \in RunInputs :
        \E sd \in {0, ScenarioSeed}, p \in {0, 11, 600} :
            /\ rng = [seed |-> sd, pos |-> p]
            /\ runPage = <<in1.page, in2.page>>
            /\ runN = <<in1.n, in2.n>>
            /\ runI = <<0, 0>>
            /\ runOut = <<<<>>, <<>>>>
            /\ runPc = [r \in Runs |->
                          IF <<in1, in2>>[r].page = "scenario" THEN "seed" ELSE "choice"]

ConcIdle ==
    /\ rng = [seed |-> 0, pos |-> 0]
    /\ runPage = <<"none", "none">>
    /\ runN = <<0, 0>>
    /\ runI = <<0, 0>>
    /\ runOut = <<<<>>, <<>>>>
    /\ runPc = <<"idle", "idle">>

ConcNext ==
    \/ \E r \in Runs : Seed(r)
    \/ \E r \in Runs : Normal(r)
    \/ \E r \in Runs : Choice(r)

(***************************************************************************)
(* The Risk Pulse page: one run of the script from load_anomaly to the     *)
(* "Current pulse state" line.                                             *)
(*                                                                         *)
(* A square root is rounded down to a multiple of 1 / SqrtScale, but not   *)
(* to 0 for a positive argument; the square root of an exact square is     *)
(* exact for multiples of 1 / SqrtScale.                                   *)
(***************************************************************************)
SqrtScale == 10 * 10

\* The largest k in lo..hi with (k / SqrtScale)^2 <= q; lo is such a k.
RECURSIVE SqrtSearch(_, _, _)
SqrtSearch(q, lo, hi) ==
    IF lo = hi THEN lo
    ELSE LET mid == (lo + hi + 1) \div 2
             fits == BCmp(BMul(BFromInt(mid * mid), BFromInt(q.d)),
                          BMul(BFromInt(q.n), BFromInt(SqrtScale * SqrtScale))) <= 0
         IN  IF fits THEN SqrtSearch(q, mid, hi) ELSE SqrtSearch(q, lo, mid - 1)

\* np.sqrt of a value that is not negative
Sqrt(q) ==
    IF IsNaN(q) THEN NaN
    ELSE IF q.n = 0 THEN R(0)
    ELSE LET k == SqrtSearch(q, 0, SqrtScale * (q.n \div q.d + 1))
         IN  RNorm(IF k = 0 THEN 1 ELSE k, SqrtScale)

\* a / b elementwise, for b that is not 0: NaN if either is NaN.
RDiv(a, b) ==
    IF IsNaN(a) \/ IsNaN(b) THEN NaN
    ELSE IF b.n > 0 THEN RMul(a, [n |-> b.d, d |-> b.n])
    ELSE RMul(RNeg(a), [n |-> b.d, d |-> -b.n])

\* a / b as numpy divides: 0 / 0 is NaN.  A value that is not 0 divided by 0
\* is an infinity; it does not occur where this operator is used, since a
\* series whose standard deviation is 0 equals its mean everywhere.
NpDiv(a, b) ==
    IF IsNaN(a) \/ IsNaN(b) THEN NaN
    ELSE IF b.n = 0 THEN NaN
    ELSE RDiv(a, b)

RECURSIVE RSumSeq(_, _)
RSumSeq(a, i) == IF i > Len(a) THEN R(0) ELSE RAdd(a[i], RSumSeq(a, i + 1))

\* np.mean(a): NaN for an empty array or one that holds a NaN.
NpMean(a) == IF Len(a) = 0 THEN NaN ELSE RDivInt(RSumSeq(a, 1), Len(a))

\* The sum of squared deviations of a from m.
SqDev(a, m) == RSumSeq([i \in 1..Len(a) |-> RMul(RSub(a[i], m), RSub(a[i], m))], 1)

\* np.std(a): the population standard deviation.
NpStd(a) == IF Len(a) = 0 THEN NaN ELSE Sqrt(RDivInt(SqDev(a, NpMean(a)), Len(a)))

\* values[i-w+1..i]
WindowAt(vals, w, i) == SubSeq(vals, i - w + 1, i)

\* pd.Series(values).rolling(window=w).mean(): NaN before the first full
\* window and for a window that holds a NaN.
RollingMean(vals, w) ==
    [i \in 1..Len(vals) |-> IF i < w THEN NaN ELSE NpMean(WindowAt(vals, w, i))]

\* pd.Series(values).rolling(window=w).std(): the sample standard deviation.
RollingStd(vals, w) ==
    [i \in 1..Len(vals) |->
        IF i < w THEN NaN
        ELSE LET x == WindowAt(vals, w, i)
             IN  Sqrt(RDivInt(SqDev(x, NpMean(x)), w - 1))]

\* np.gradient(f) for len(f) >= 2: one-sided differences at the two ends,
\* centred differences in between.
Gradient(f) ==
    [i \in 1..Len(f) |->
        IF i = 1 THEN RSub(f[2], f[1])
        ELSE IF i = Len(f) THEN RSub(f[i], f[i - 1])
        ELSE RDivInt(RSub(f[i + 1], f[i - 1]), 2)]

\* The positions where mask holds, ascending.
RECURSIVE MaskFrom(_, _)
MaskFrom(f, i) ==
    IF i > Len(f) THEN <<>>
    ELSE (IF IsNaN(f[i]) THEN <<>> ELSE <<i>>) \o MaskFrom(f, i + 1)

\* valid_mask = ~np.isnan(rolling_mean), as the positions kept
ValidMask(f) == MaskFrom(f, 1)

\* (a - np.mean(a)) / np.std(a)
Standardise(a) ==
    LET m == NpMean(a)
        sd == NpStd(a)
    IN  [i \in 1..Len(a) |-> NpDiv(RSub(a[i], m), sd)]

PulseTop == 100
HighPulse == 80
ElevatedPulse == 60

\* The whole range of years of the data.
FullRange(d) == IF DOMAIN d = {} THEN <<0, 0>> ELSE <<SetMin(DOMAIN d), SetMax(DOMAIN d)>>

\* Lines 17-31: load_anomaly, years, values.
LoadAnomaly ==
    /\ pulsePc = "load"
    /\ pYears' = AnnualIndex(pulseData, FullRange(pulseData))
    /\ pValues' = Anomaly(pulseData, FullRange(pulseData))
    /\ pulsePc' = "guard"
    /\ UNCHANGED <<pulseData, window, volW, accW, alertThr, rollingMean, rollingStd,
                   accel, rollYears, rollMean, rollStd, rollAcc, stdDevs, pulseRaw,
                   pulseIndex, latestPulse, alerts, riskState, pulseMsg, pulseErr>>
    /\ UNCHANGED otherThanPulse

\* Mutant: a series as long as the window passes the guard.
TooLargeStrict(n, w) == n < w

\* len(values) <= window
TooLarge(n, w) == n <= w

\* Lines 46-48: the window guard; st.stop() ends the script run.
WindowGuard ==
    /\ pulsePc = "guard"
    /\ IF TooLarge(Len(pValues), window)
       THEN /\ pulseMsg' = "Not enough data for the selected window."
            /\ pulsePc' = "stopped"
       ELSE /\ pulseMsg' = pulseMsg
            /\ pulsePc' = "rolling"
    /\ UNCHANGED <<pulseData, window, volW, accW, alertThr, pYears, pValues,
                   rollingMean, rollingStd, accel, rollYears, rollMean, rollStd,
                   rollAcc, stdDevs, pulseRaw, pulseIndex, latestPulse, alerts,
                   riskState, pulseErr>>
    /\ UNCHANGED otherThanPulse

\* Lines 50-61: the rolling statistics, the acceleration and their valid part.
Rolling ==
    /\ pulsePc = "rolling"
    /\ LET rm == RollingMean(pValues, window)
           rs == RollingStd(pValues, window)
           acc == Gradient(Gradient(rm))
           keep == ValidMask(rm)
       IN  /\ rollingMean' = rm
           /\ rollingStd' = rs
           /\ accel' = acc
           /\ rollYears' = Take(pYears, keep)
           /\ rollMean' = Take(rm, keep)
           /\ rollStd' = Take(rs, keep)
           /\ rollAcc' = Take(acc, keep)
    /\ pulsePc' = "scores"
    /\ UNCHANGED <<pulseData, window, volW, accW, alertThr, pYears, pValues,
                   stdDevs, pulseRaw, pulseIndex, latestPulse, alerts, riskState,
                   pulseMsg, pulseErr>>
    /\ UNCHANGED otherThanPulse

\* Lines 63-67: the three standardised series and the raw composite.
Scores ==
    /\ pulsePc = "scores"
    /\ LET z == Standardise(rollMean)
           vol == Standardise(rollStd)
           acc == Standardise(rollAcc)
       IN  pulseRaw' = [i \in 1..Len(rollMean) |->
                           RAdd(RAdd(z[i], RMul(volW, vol[i])), RMul(accW, acc[i]))]
    /\ stdDevs' = <<NpStd(rollMean), NpStd(rollStd), NpStd(rollAcc)>>
    /\ pulsePc' = "rescale"
    /\ UNCHANGED <<pulseData, window, volW, accW, alertThr, pYears, pValues,
                   rollingMean, rollingStd, accel, rollYears, rollMean, rollStd,
                   rollAcc, pulseIndex, latestPulse, alerts, riskState, pulseMsg,
                   pulseErr>>
    /\ UNCHANGED otherThanPulse

\* np.clip(100 * (x - lo) / (hi - lo), 0, 100) for lo <= hi: NaN stays NaN;
\* with hi = lo the quotient is NaN for x = lo and an infinity otherwise,
\* which is clipped to 0 or 100.
ClipScaled(x, lo, hi) ==
    LET num == RSub(x, lo)
        den == RSub(hi, lo)
        v == RDiv(RMul(R(PulseTop), num), den)
    IN  IF IsNaN(num) \/ IsNaN(den) THEN NaN
        ELSE IF den.n = 0
        THEN (IF num.n = 0 THEN NaN ELSE IF num.n > 0 THEN R(PulseTop) ELSE R(0))
        ELSE IF RLt(v, R(0)) THEN R(0)
        ELSE IF RLt(R(PulseTop), v) THEN R(PulseTop)
        ELSE v

\* Lines 69-75: the index and its latest value.  With no valid position,
\* pulse_index[-1] (line 75) raises IndexError, if np.percentile (line 69)
\* did not before it.
Rescale ==
    /\ pulsePc = "rescale"
    /\ IF Len(pulseRaw) = 0
       THEN /\ pulseErr' = "IndexError"
            /\ pulsePc' = "error"
            /\ UNCHANGED <<pulseIndex, latestPulse>>
       ELSE LET lo == Percentile(pulseRaw, LowPct)
                hi == Percentile(pulseRaw, HighPct)
                idx == [i \in 1..Len(pulseRaw) |-> ClipScaled(pulseRaw[i], lo, hi)]
            IN  /\ pulseIndex' = Some(idx)
                /\ latestPulse' = Some(idx[Len(idx)])
                /\ pulseErr' = pulseErr
                /\ pulsePc' = "alerts"
    /\ UNCHANGED <<pulseData, window, volW, accW, alertThr, pYears, pValues,
                   rollingMean, rollingStd, accel, rollYears, rollMean, rollStd,
                   rollAcc, stdDevs, pulseRaw, alerts, riskState, pulseMsg>>
    /\ UNCHANGED otherThanPulse

\* recent_pulse[recent_pulse >= alert_threshold], as the positions kept
RECURSIVE AtLeastFrom(_, _, _)
AtLeastFrom(v, thr, i) ==
    IF i > Len(v) THEN <<>>
    ELSE (IF RLe(R(thr), v[i]) THEN <<i>> ELSE <<>>) \o AtLeastFrom(v, thr, i + 1)

\* Lines 132-137.
RiskStateOf(latest) ==
    IF RLe(R(HighPulse), latest) THEN "High"
    ELSE IF RLe(R(ElevatedPulse), latest) THEN "Elevated"
    ELSE "Moderate"

\* Lines 77-141: the metrics, the chart, the alerts and the pulse state.
Alerts ==
    /\ pulsePc = "alerts"
    /\ alerts' = Some(Take(rollYears, AtLeastFrom(pulseIndex.v, alertThr, 1)))
    /\ riskState' = RiskStateOf(latestPulse.v)
    /\ pulsePc' = "done"
    /\ UNCHANGED <<pulseData, window, volW, accW, alertThr, pYears, pValues,
                   rollingMean, rollingStd, accel, rollYears, rollMean, rollStd,
                   rollAcc, stdDevs, pulseRaw, pulseIndex, latestPulse, pulseMsg,
                   pulseErr>>
    /\ UNCHANGED otherThanPulse

(***************************************************************************)
(* The page's inputs: the data sets of the Global Trends page (one of them *)
(* with the same value in every year), one with a single year without rows *)
(* near its start, one without rows at all, and the widgets.  The window   *)
(* slider runs from 10 to 40, the alert threshold from 60 to 95.           *)
(***************************************************************************)
PulseGapData == [y \in (1897..1909) \ {1898} |-> R(DataValue("rise", y))]

PulseDataSets == DataSets \cup {PulseGapData, <<>>}

PulseWindows == {10, 12, 13}

PulseWeights == {R(0), RNorm(2, 5), RNorm(3, 5)}

PulseThresholds == {60, 80}

PulseStart(d, w, vw, aw, thr, pc) ==
    /\ pulseData = d
    /\ window = w
    /\ volW = vw
    /\ accW = aw
    /\ alertThr = thr
    /\ pYears = <<>>
    /\ pValues = <<>>
    /\ rollingMean = <<>>
    /\ rollingStd = <<>>
    /\ accel = <<>>
    /\ rollYears = <<>>
    /\ rollMean = <<>>
    /\ rollStd = <<>>
    /\ rollAcc = <<>>
    /\ stdDevs = <<>>
    /\ pulseRaw = <<>>
    /\ pulseIndex = None
    /\ latestPulse = None
    /\ alerts = None
    /\ riskState = ""
    /\ pulseMsg = ""
    /\ pulseErr = "none"
    /\ pulsePc = pc

PulseInit ==
    \E d \in PulseDataSets, w \in PulseWindows, thr \in PulseThresholds :
        \E vw \in PulseWeights, aw \in PulseWeights :
            PulseStart(d, w, vw, aw, thr, "load")

PulseIdle == PulseStart(<<>>, 0, R(0), R(0), 0, "idle")

PulseNext ==
    \/ LoadAnomaly
    \/ WindowGuard
    \/ Rolling
    \/ Scores
    \/ Rescale
    \/ Alerts

(***************************************************************************)
(* analyze_climate_data: one call, from the parsed dates to the trend      *)
(* line it prints.                                                         *)
(*                                                                         *)
(* A row holds the number of the month of its date, dt = 12 * year +       *)
(* month - 1, and the day of the month; dt = 0 is a missing date (NaT).    *)
(***************************************************************************)
MinMonths == 12
TrendSpan == 30

NaT == 0

MonthOf(y, m) == 12 * y + m - 1

YearOf(dt) == dt \div 12

\* df['dt'].last_valid_index(), as a position; 0 if no date is valid.
RECURSIVE LastValid(_, _)
LastValid(rows, i) ==
    IF i = 0 THEN 0
    ELSE IF rows[i].dt # NaT THEN i
    ELSE LastValid(rows, i - 1)

\* pd.date_range(start, periods, freq='MS'): the k-th month start that is
\* not before the start date.
MonthStarts(start, k) ==
    [dt |-> start.dt + (k - 1) + (IF start.day > 1 THEN 1 ELSE 0), day |-> 1]

\* date + pd.DateOffset(months=1): the same day a month later (every day
\* considered exists in every month).
NextMonth(date) == [dt |-> date.dt + 1, day |-> date.day]

\* Lines 16-29: when a date is missing, the rows after the last valid date
\* get the month starts from one month after it on, one month apart.
RepairDates(rows) ==
    LET last == LastValid(rows, Len(rows))
        new_dates(k) == MonthStarts(NextMonth(rows[last]), k)
    IN  [i \in 1..Len(rows) |->
            IF last > 0 /\ i > last
            THEN [dt |-> new_dates(i - last).dt, day |-> new_dates(i - last).day,
                  v |-> rows[i].v]
            ELSE rows[i]]

HasDate(row) == row.dt # NaT

HasValue(row) == ~IsNaN(row.v)

\* The years of the rows of a frame.
RowYears(rows) == {YearOf(rows[i].dt) : i \in 1..Len(rows)}

\* The positions of the rows of year y.
RowsOf(rows, y) == {i \in 1..Len(rows) : YearOf(rows[i].dt) = y}

\* resample('YE'): one bin per calendar year from the first to the last
\* year of the frame; none for an empty frame.
YearBins(rows) ==
    IF Len(rows) = 0 THEN <<>>
    ELSE LET ys == RowYears(rows)
         IN  [k \in 1..(SetMax(ys) - SetMin(ys) + 1) |-> SetMin(ys) + k - 1]

\* .count() of each bin
BinCounts(rows) ==
    LET bins == YearBins(rows)
    IN  [k \in 1..Len(bins) |->
            [year |-> bins[k], count |-> Cardinality(RowsOf(rows, bins[k]))]]

\* .mean() of one bin: NaN for a bin without rows.
BinMean(rows, y) ==
    SeriesMean([i \in 1..Len(rows) |-> rows[i].v], RowsOf(rows, y))

\* df_counts[target_col] >= 12
Complete(count) == count >= MinMonths

\* The entries of a sequence at the positions in S, in order.
RECURSIVE PickFrom(_, _, _)
PickFrom(seq, S, i) ==
    IF i > Len(seq) THEN <<>>
    ELSE (IF i \in S THEN <<seq[i]>> ELSE <<>>) \o PickFrom(seq, S, i + 1)

Pick(seq, S) == PickFrom(seq, S, 1)

\* dropna and boolean indexing: the rows that have a date, a value, twelve
\* months.
WithDate(rows) == Pick(rows, {i \in 1..Len(rows) : HasDate(rows[i])})

WithValue(rows) == Pick(rows, {i \in 1..Len(rows) : HasValue(rows[i])})

CompleteBins(bins) == Pick(bins, {k \in 1..Len(bins) : Complete(bins[k].count)})

\* Lines 12-35: parse the dates, repair the trailing ones, drop the rows
\* that still have none.
AnDates ==
    /\ anPc = "dates"
    /\ df' = WithDate(RepairDates(csvRows))
    /\ anPc' = "clean"
    /\ UNCHANGED <<csvRows, dfClean, dfCounts, dfAnnual, droppedMsg, baselineMean, trendMsg,
                   topFive, decadal>>
    /\ UNCHANGED otherThanAn

\* Lines 43-47: drop the rows without a temperature.
AnClean ==
    /\ anPc = "clean"
    /\ dfClean' = WithValue(df)
    /\ anPc' = "annual"
    /\ UNCHANGED <<csvRows, df, dfCounts, dfAnnual, droppedMsg, baselineMean, trendMsg,
                   topFive, decadal>>
    /\ UNCHANGED otherThanAn

\* Lines 49-56: yearly counts and means, the years with 12 months kept, the
\* number of dropped years printed.
AnAnnual ==
    /\ anPc = "annual"
    /\ LET counts == BinCounts(dfClean)
           valid == CompleteBins(counts)
       IN  /\ dfCounts' = counts
           /\ droppedMsg' = Some(Len(counts) - Len(valid))
           /\ dfAnnual' = [k \in 1..Len(valid) |->
                               [year |-> valid[k].year,
                                temp |-> BinMean(dfClean, valid[k].year),
                                anomaly |-> NaN]]
    /\ anPc' = "baseline"
    /\ UNCHANGED <<csvRows, df, dfClean, baselineMean, trendMsg,
                   topFive, decadal>>
    /\ UNCHANGED otherThanAn

\* Lines 58-68: the 1850-1900 mean of the years kept, and the anomaly.
AnBaseline ==
    /\ anPc = "baseline"
    /\ LET temp == [k \in 1..Len(dfAnnual) |-> dfAnnual[k].temp]
           mask == {k \in 1..Len(dfAnnual) :
                        dfAnnual[k].year \in BaselineFirst..BaselineLast}
           mean == SeriesMean(temp, mask)
       IN  /\ baselineMean' = mean
           /\ dfAnnual' = [k \in 1..Len(dfAnnual) |->
                               [dfAnnual[k] EXCEPT !.anomaly = RSub(dfAnnual[k].temp, mean)]]
    /\ anPc' = "trend"
    /\ UNCHANGED <<csvRows, df, dfClean, dfCounts, droppedMsg, trendMsg,
                   topFive, decadal>>
    /\ UNCHANGED otherThanAn

\* recent_data: the years kept that are later than last_year - 30.
RecentData(annual) ==
    IF Len(annual) = 0 THEN <<>>
    ELSE LET last_year == SetMax({annual[k].year : k \in 1..Len(annual)})
             start_trend_year == last_year - TrendSpan
             first == SetMin({k \in 1..Len(annual) : annual[k].year > start_trend_year})
         IN  SubSeq(annual, first, Len(annual))

\* Lines 77-81: the slope of the anomaly against np.arange(len(recent_data)),
\* times ten.
TrendRate(recent) ==
    LET x == [k \in 1..Len(recent) |-> k - 1]
        y == [k \in 1..Len(recent) |-> recent[k].anomaly]
    IN  RMul(PolyFit(x, y).slope, R(PerDecade))

\* Lines 70-81
AnTrend ==
    /\ anPc = "trend"
    /\ LET recent_data == RecentData(dfAnnual)
       IN  trendMsg' = IF Len(recent_data) > 1 THEN Some(TrendRate(recent_data)) ELSE None
    /\ anPc' = "report"
    /\ UNCHANGED <<csvRows, df, dfClean, dfCounts, dfAnnual, droppedMsg, baselineMean,
                   topFive, decadal>>
    /\ UNCHANGED otherThanAn

TopCount == 5

\* The position of the warmest entry of a frame: the largest anomaly, the
\* earlier row on a tie, rows without an anomaly after all others.
Warmest(rows) ==
    LET known == {i \in 1..Len(rows) : ~IsNaN(rows[i].anomaly)}
    IN  IF known = {} THEN 1
        ELSE SetMin({i \in known : \A j \in known : RLe(rows[j].anomaly, rows[i].anomaly)})

Without(rows, i) == SubSeq(rows, 1, i - 1) \o SubSeq(rows, i + 1, Len(rows))

\* sort_values('anomaly', ascending=False)
RECURSIVE SortWarmest(_)
SortWarmest(rows) ==
    IF Len(rows) = 0 THEN <<>>
    ELSE <<rows[Warmest(rows)]>> \o SortWarmest(Without(rows, Warmest(rows)))

\* .head(n)
HeadN(seq, n) == SubSeq(seq, 1, Min2(n, Len(seq)))

\* .tail(n)
TailN(seq, n) == SubSeq(seq, Len(seq) - Min2(n, Len(seq)) + 1, Len(seq))

DecadeOf(y) == (y \div 10) * 10

\* groupby('decade')['anomaly'].mean(): one entry per decade, in order.
RECURSIVE DecadalFrom(_, _)
DecadalFrom(annual, decades) ==
    IF decades = {} THEN <<>>
    ELSE LET d == SetMin(decades)
             anomaly == [k \in 1..Len(annual) |-> annual[k].anomaly]
             rows == {k \in 1..Len(annual) : DecadeOf(annual[k].year) = d}
         IN  <<[decade |-> d, anomaly |-> SeriesMean(anomaly, rows)]>>
                 \o DecadalFrom(annual, decades \ {d})

Decadal(annual) ==
    DecadalFrom(annual, {DecadeOf(annual[k].year) : k \in 1..Len(annual)})

\* Lines 83-99: the five warmest years and the last five decadal averages.
\* The file has no uncertainty column, so lines 97-99 print nothing.
AnReport ==
    /\ anPc = "report"
    /\ topFive' = LET top_5 == HeadN(SortWarmest(dfAnnual), TopCount)
                  IN  [k \in 1..Len(top_5) |->
                          [year |-> top_5[k].year, anomaly |-> top_5[k].anomaly]]
    /\ decadal' = TailN(Decadal(dfAnnual), TopCount)
    /\ anPc' = "done"
    /\ UNCHANGED <<csvRows, df, dfClean, dfCounts, dfAnnual, droppedMsg, baselineMean,
                   trendMsg>>
    /\ UNCHANGED otherThanAn

\* The files considered: four calendar years, each complete, one month
\* short, complete with one temperature missing, or absent, all dated on
\* the same day of the month; possibly a row without a date first, and up
\* to two rows without a date last.
AnYears == 1899..1902

AnDays == {1, 15}

AnLeads == {0, 1}

AnShapes == {"full", "short", "holey", "none"}

AnTails == {0, 1, 2}

AnValue(y, m) == R(140 + 2 * (y - BaselineLast) + (m % 2))

YearRows(y, shape, day) ==
    IF shape = "none" THEN <<>>
    ELSE [m \in 1..(IF shape = "short" THEN MinMonths - 1 ELSE MinMonths) |->
             [dt |-> MonthOf(y, m), day |-> day,
              v |-> IF shape = "holey" /\ m = 6 THEN NaN ELSE AnValue(y, m)]]

RECURSIVE FileRows(_, _, _)
FileRows(shapes, y, day) ==
    IF y \notin AnYears THEN <<>>
    ELSE YearRows(y, shapes[y], day) \o FileRows(shapes, y + 1, day)

TailRows(n) == [i \in 1..n |-> [dt |-> NaT, day |-> 0, v |-> AnValue(BaselineLast, i)]]

AnStart(rows) ==
    /\ csvRows = rows
    /\ df = <<>>
    /\ dfClean = <<>>
    /\ dfCounts = <<>>
    /\ dfAnnual = <<>>
    /\ droppedMsg = None
    /\ baselineMean = NaN
    /\ trendMsg = None
    /\ topFive = <<>>
    /\ decadal = <<>>

AnInit ==
    /\ \E shapes \in [AnYears -> AnShapes], day \in AnDays, l \in AnLeads, n \in AnTails :
           AnStart(TailRows(l) \o FileRows(shapes, SetMin(AnYears), day) \o TailRows(n))
    /\ anPc = "dates"

AnIdle ==
    /\ AnStart(<<>>)
    /\ anPc = "idle"

AnNext ==
    \/ AnDates
    \/ AnClean
    \/ AnAnnual
    \/ AnBaseline
    \/ AnTrend
    \/ AnReport

(***************************************************************************)
(* The Recent Acceleration page: one run of the script.                    *)
(***************************************************************************)
MinPoints == 5
MidFirst == 1900
RecentFirst == 1980

\* anomaly.loc[str(lo):str(hi)]: the positions of the years lo..hi
Period(ys, lo, hi) == {i \in 1..Len(ys) : ys[i] >= lo /\ ys[i] <= hi}

\* anomaly.loc[str(lo):]
PeriodFrom(ys, lo) == {i \in 1..Len(ys) : ys[i] >= lo}

\* compute_rate on the slice of the series at the positions S (a run of
\* consecutive positions).
ComputeRate(ys, vals, S) ==
    IF Cardinality(S) < MinPoints THEN None
    ELSE LET x == [k \in 1..Cardinality(S) |-> ys[SetMin(S) + k - 1]]
             y == [k \in 1..Cardinality(S) |-> vals[SetMin(S) + k - 1]]
         IN  Some(RMul(PolyFit(x, y).slope, R(PerDecade)))

\* The truth value Python gives a rate in a condition: None and 0.0 are
\* false, every other float, NaN included, is true.
Truthy(rate) == rate.some /\ (IsNaN(rate.v) \/ rate.v.n # 0)

\* Lines 23-27
AccPrepare ==
    /\ accPc = "prepare"
    /\ accYears' = AnnualIndex(accData, FullRange(accData))
    /\ accAnomaly' = Anomaly(accData, FullRange(accData))
    /\ accPc' = "rates"
    /\ UNCHANGED <<accData, earlyRate, midRate, recentRate, accMsg>>
    /\ UNCHANGED otherThanAcc

\* Lines 43-49
AccRates ==
    /\ accPc = "rates"
    /\ earlyRate' = ComputeRate(accYears, accAnomaly,
                                Period(accYears, BaselineFirst, BaselineLast))
    /\ midRate' = ComputeRate(accYears, accAnomaly, Period(accYears, MidFirst, RecentFirst))
    /\ recentRate' = ComputeRate(accYears, accAnomaly, PeriodFrom(accYears, RecentFirst))
    /\ accPc' = "interpret"
    /\ UNCHANGED <<accData, accYears, accAnomaly, accMsg>>
    /\ UNCHANGED otherThanAcc

\* Lines 51-115: the metrics, the chart and the interpretation.
AccInterpret ==
    /\ accPc = "interpret"
    /\ accMsg' = IF Truthy(recentRate) /\ Truthy(midRate) /\ RLt(midRate.v, recentRate.v)
                 THEN "success"
                 ELSE IF Truthy(recentRate) /\ Truthy(midRate) THEN "info"
                 ELSE "warning"
    /\ accPc' = "done"
    /\ UNCHANGED <<accData, accYears, accAnomaly, earlyRate, midRate, recentRate>>
    /\ UNCHANGED otherThanAcc

\* The files considered: every year from a first to a last year, one year
\* possibly without rows; the temperature is level up to 1900 and then level,
\* rising by one a year, or rising with a change of pace in 1980.
AccFirstYears == {1896, 1900, 1976, 1977}

AccLastYears == {1983, 1984, 1986}

AccGaps == {0, 1950, 1982}

AccShapes == {"flat", "rise", "faster", "slower"}

AccValue(shape, y) ==
    IF shape = "flat" \/ y <= MidFirst THEN 140
    ELSE IF shape = "rise" \/ y <= RecentFirst THEN 140 + (y - MidFirst)
    ELSE IF shape = "faster" THEN 140 + (RecentFirst - MidFirst) + 2 * (y - RecentFirst)
    ELSE 140 + (RecentFirst - MidFirst) + (y - RecentFirst) \div 2

AccDataSets ==
    {[y \in (a..b) \ {g} |-> R(AccValue(sh, y))] :
        a \in AccFirstYears, b \in AccLastYears, g \in AccGaps, sh \in AccShapes}

AccStart(d) ==
    /\ accData = d
    /\ accYears = <<>>
    /\ accAnomaly = <<>>
    /\ earlyRate = None
    /\ midRate = None
    /\ recentRate = None
    /\ accMsg = ""

AccInit ==
    /\ \E d \in AccDataSets : AccStart(d)
    /\ accPc = "prepare"

AccIdle ==
    /\ AccStart(<<>>)
    /\ accPc = "idle"

AccNext ==
    \/ AccPrepare
    \/ AccRates
    \/ AccInterpret

(***************************************************************************)
(* app.py: load_and_correct_data, called once (st.cache_data keeps its     *)
(* result), then the reruns of main.                                       *)
(***************************************************************************)
TrainFirst == 1970
AnomalyYear == 2017
MonthlyFirst == 2010

MonthIn(dt) == (dt % 12) + 1

\* Mutant: the rows of 2017 and later.
SinceAnomalyYear(row) == row.dt # NaT /\ YearOf(row.dt) >= AnomalyYear

\* df.index.year == 2017; a row without a date is in no year.
InAnomalyYear(row) == row.dt # NaT /\ YearOf(row.dt) = AnomalyYear

\* df[[col]].resample('YE').mean() of a frame whose index may hold NaT: the
\* rows without a date are in no bin.
AnnualMeans(rows) ==
    LET dated == WithDate(rows)
        bins == YearBins(dated)
    IN  [k \in 1..Len(bins) |-> [year |-> bins[k], temp |-> BinMean(dated, bins[k])]]

\* train_data: the annual means of 1970..2016 that are not NaN
TrainData(rows) ==
    LET annual == AnnualMeans(rows)
    IN  Pick(annual, {k \in 1..Len(annual) :
                          /\ annual[k].year >= TrainFirst
                          /\ annual[k].year < AnomalyYear
                          /\ ~IsNaN(annual[k].temp)})

\* The rows of month m in recent_years (2010..2016)
RecentMonth(rows, m) ==
    {i \in 1..Len(rows) :
        /\ rows[i].dt # NaT
        /\ YearOf(rows[i].dt) >= MonthlyFirst
        /\ YearOf(rows[i].dt) < AnomalyYear
        /\ MonthIn(rows[i].dt) = m}

\* monthly_means[m], for a month that has rows in recent_years
MonthlyMean(rows, m) == SeriesMean([i \in 1..Len(rows) |-> rows[i].v], RecentMonth(rows, m))

\* is_monotonic_increasing of the index: no NaT, and no date before the one
\* of the row above.
Monotonic(rows) ==
    /\ \A i \in 1..Len(rows) : rows[i].dt # NaT
    /\ \A i \in 1..(Len(rows) - 1) :
           \/ rows[i].dt < rows[i + 1].dt
           \/ rows[i].dt = rows[i + 1].dt /\ rows[i].day <= rows[i + 1].day

\* frame.loc['2017', col] raises KeyError when the index is sorted and 2017
\* lies wholly before or wholly after it; otherwise it is the rows of 2017,
\* possibly none.
OutOfRange(rows) ==
    /\ Len(rows) > 0
    /\ Monotonic(rows)
    /\ \/ YearOf(rows[1].dt) > AnomalyYear
       \/ YearOf(rows[Len(rows)].dt) < AnomalyYear

\* frame.loc['2017', col].mean()
AnomalyYearMean(rows, col) ==
    SeriesMean(col, {i \in 1..Len(rows) : InAnomalyYear(rows[i])})

\* Lines 129-148: read the file, parse and repair the dates, keep a copy.
AppDates ==
    /\ appPc = "dates"
    /\ IF appFile
       THEN /\ appDf' = RepairDates(appRows)
            /\ appRaw' = RepairDates(appRows)
            /\ appPc' = "train"
       ELSE /\ UNCHANGED <<appDf, appRaw>>
            /\ appPc' = "ready"
    /\ UNCHANGED <<appFile, appRows, widening, tempCorrected, appStats, showBrief,
                   buttonShown, pressed, briefShown, simRate, simRisks, appErr>>
    /\ UNCHANGED otherThanApp

\* Lines 150-163: the trend of 1970..2016 and the spread of its residuals.
\* np.polyfit raises TypeError on an empty vector.
TrainYears(train_data) == [k \in 1..Len(train_data) |-> train_data[k].year]

TrainTemps(train_data) == [k \in 1..Len(train_data) |-> train_data[k].temp]

\* residuals = train_data[target_col] - train_preds
Residuals(train_data, fit) ==
    [k \in 1..Len(train_data) |->
        RSub(train_data[k].temp, Predict(fit, train_data[k].year))]

AppTrain ==
    /\ appPc = "train"
    /\ \E train_data \in {TrainData(appDf)} :
           IF Len(train_data) = 0
           THEN /\ appErr' = "TypeError"
                /\ appPc' = "crashed"
                /\ UNCHANGED appStats
           ELSE \E fit \in {PolyFit(TrainYears(train_data), TrainTemps(train_data))} :
                \E residuals \in {Residuals(train_data, fit)} :
                    /\ appStats' = Some([slope |-> fit.slope, intercept |-> fit.intercept,
                                          std_error |-> NpStd(residuals),
                                          original_2017_avg |-> NaN,
                                          corrected_2017_avg |-> NaN])
                    /\ appPc' = "correct"
                    /\ UNCHANGED appErr
    /\ UNCHANGED <<appFile, appRows, widening, appDf, appRaw, tempCorrected, showBrief,
                   buttonShown, pressed, briefShown, simRate, simRisks>>
    /\ UNCHANGED otherThanApp

\* expected_val of month m
ExpectedVal(rows, m, sl) == RAdd(MonthlyMean(rows, m), sl)

\* Lines 165-186: Temp_Corrected, and the two averages of 2017.
\* monthly_means[month] raises KeyError for a month without rows in
\* 2010..2016.
AppCorrect ==
    /\ appPc = "correct"
    /\ LET corrected == [i \in 1..Len(appDf) |->
                            IF InAnomalyYear(appDf[i])
                            THEN ExpectedVal(appDf, MonthIn(appDf[i].dt), appStats.v.slope)
                            ELSE appDf[i].v]
           original == [i \in 1..Len(appRaw) |-> appRaw[i].v]
       IN  IF \/ \E m \in 1..MinMonths : RecentMonth(appDf, m) = {}
              \/ OutOfRange(appDf)
           THEN /\ appErr' = "KeyError"
                /\ appPc' = "crashed"
                /\ UNCHANGED <<tempCorrected, appStats>>
           ELSE /\ tempCorrected' = corrected
                /\ appStats' = Some([appStats.v EXCEPT
                                        !.original_2017_avg = AnomalyYearMean(appRaw, original),
                                        !.corrected_2017_avg = AnomalyYearMean(appDf, corrected)])
                /\ appPc' = "ready"
                /\ UNCHANGED appErr
    /\ UNCHANGED <<appFile, appRows, widening, appDf, appRaw, showBrief, buttonShown,
                   pressed, briefShown, simRate, simRisks>>
    /\ UNCHANGED otherThanApp

\* get_risk_assessment: the levels of the three risks, in the order heat
\* stress, coastal inundation, food security.
HeatRisk(current_temp_anomaly) ==
    IF RLt(RNorm(3, 2), current_temp_anomaly) THEN "Critical"
    ELSE IF RLt(R(1), current_temp_anomaly) THEN "High"
    ELSE IF RLt(RNorm(1, 2), current_temp_anomaly) THEN "Medium"
    ELSE "Low"

SeaRisk(warming_rate) ==
    IF RLt(RNorm(1, 4), warming_rate) THEN "Critical"
    ELSE IF RLt(RNorm(3, 20), warming_rate) THEN "High"
    ELSE IF RLt(RNorm(1, 10), warming_rate) THEN "Medium"
    ELSE "Low"

AgRisk(current_temp_anomaly) ==
    IF RLt(R(2), current_temp_anomaly) THEN "Critical"
    ELSE IF RLt(R(1), current_temp_anomaly) THEN "Medium"
    ELSE "Low"

GetRiskAssessment(warming_rate, current_temp_anomaly) ==
    <<HeatRisk(current_temp_anomaly), SeaRisk(warming_rate), AgRisk(current_temp_anomaly)>>

\* Mutant: the rate per decade is passed on as it is.
PerDecadeRate(rate) == rate

\* sim_warming_rate/10
PerYear(rate) == RDivInt(rate, PerDecade)

\* Mutant: the flag follows the button.
FlagFollowsButton(flag, click) == click

\* Lines 311-312: a click sets the flag, nothing clears it.
FlagAfter(flag, click) == flag \/ click

\* The ends of the warming rate slider, 0.0 and 0.5
SimRateMin == R(0)

SimRateMax == RNorm(1, 2)

InRange(x, lo, hi) == RLe(lo, x) /\ RLe(x, hi)

\* The range of the slider once it holds its default value.
SliderMin(default) == IF RLt(default, SimRateMin) THEN default ELSE SimRateMin

SliderMax(default) == IF RLt(SimRateMax, default) THEN default ELSE SimRateMax

\* Values the warming rate slider can be set to: its default, and steps
\* from its lower end.
SimGrid == {R(0), RNorm(1, 2), R(2)}

SimRates(default) ==
    {r \in SimGrid \cup {default} : InRange(r, SliderMin(default), SliderMax(default))}

\* Values of the anomaly slider (0.0 to 3.0, default 1.0) considered
SimAnomalies == {R(1), R(3)}

\* Lines 317-319: curr_anom, or IndexError when no row has a date.
CurrAnom(rows, col) ==
    LET frame == [i \in 1..Len(rows) |-> [dt |-> rows[i].dt, day |-> rows[i].day, v |-> col[i]]]
        annual == AnnualMeans(frame)
    IN  IF Len(annual) = 0 THEN None
        ELSE Some(RSub(annual[Len(annual)].temp, annual[1].temp))

\* One run of main (lines 278-536).  The dashboard, the regional explorer
\* and the time machine only draw.
AppRerun ==
    /\ appPc = "ready"
    /\ IF ~appStats.some
       THEN /\ buttonShown' = FALSE
            /\ briefShown' = FALSE
            /\ simRate' = None
            /\ simRisks' = <<>>
            /\ appErr' = ""
            /\ UNCHANGED <<showBrief, pressed>>
       ELSE \E click \in BOOLEAN :
            /\ click => buttonShown
            /\ buttonShown' = TRUE
            /\ pressed' = (pressed \/ click)
            /\ showBrief' = FlagAfter(showBrief, click)
            /\ LET default == RMul(appStats.v.slope, R(PerDecade))
               IN  IF showBrief' /\ ~CurrAnom(appDf, tempCorrected).some
                   THEN /\ briefShown' = FALSE
                        /\ simRate' = None
                        /\ simRisks' = <<>>
                        /\ appErr' = "IndexError"
                   ELSE /\ briefShown' = showBrief'
                        /\ IF ~widening /\ ~InRange(default, SimRateMin, SimRateMax)
                           THEN /\ simRate' = None
                                /\ simRisks' = <<>>
                                /\ appErr' = "StreamlitAPIException"
                           ELSE \E sim_warming_rate \in SimRates(default),
                                   sim_anomaly \in SimAnomalies :
                                /\ simRate' = Some(sim_warming_rate)
                                /\ simRisks' = GetRiskAssessment(PerYear(sim_warming_rate),
                                                                 sim_anomaly)
                                /\ appErr' = ""
    /\ UNCHANGED <<appFile, appRows, widening, appDf, appRaw, tempCorrected, appStats, appPc>>
    /\ UNCHANGED otherThanApp

\* The files considered: the years 2014..2018, each complete, one month
\* short, complete with one temperature missing, or absent; all dated on the
\* same day of the month; possibly a row without a date first, and up to two
\* rows without a date last.  The temperature is level, rises by 0.02 a year
\* or rises by 1 a year, with the same pattern of months in every year.
AppYears == 2014..2018

AppShapes ==
    {sh \in [AppYears -> AnShapes] :
        /\ sh[2014] \in {"full", "none"}
        /\ sh[2015] \in {"full", "short", "none"}
        /\ sh[2016] \in {"full", "none"}
        /\ sh[2017] \in {"full", "holey", "none"}
        /\ sh[2018] \in {"full", "none"}}

\* The trend of the file; its rows without a date first, its day of the
\* month and its rows without a date last; the slider of the installation.
AppCases ==
    {<<"flat", <<0, 1, 0>>, FALSE>>,
     <<"slow", <<0, 1, 2>>, TRUE>>,
     <<"slow", <<1, 1, 1>>, FALSE>>,
     <<"slow", <<0, 15, 1>>, FALSE>>,
     <<"steep", <<0, 1, 0>>, TRUE>>,
     <<"steep", <<0, 1, 2>>, FALSE>>}

MonthPattern(m) == IF m \in {1, 3} THEN 2 ELSE IF m \in {2, 4} THEN 0 ELSE 1

AppValue(tr, y, m) ==
    IF tr = "flat" THEN R(14 + MonthPattern(m))
    ELSE IF tr = "slow" THEN RNorm(50 * (14 + MonthPattern(m)) + (y - 2014), 50)
    ELSE R(14 + MonthPattern(m) + (y - 2014))

AppYearRows(tr, y, shape, day) ==
    IF shape = "none" THEN <<>>
    ELSE [m \in 1..(IF shape = "short" THEN MinMonths - 1 ELSE MinMonths) |->
             [dt |-> MonthOf(y, m), day |-> day,
              v |-> IF shape = "holey" /\ m = 6 THEN NaN ELSE AppValue(tr, y, m)]]

RECURSIVE AppFileRows(_, _, _, _)
AppFileRows(tr, shapes, y, day) ==
    IF y \notin AppYears THEN <<>>
    ELSE AppYearRows(tr, y, shapes[y], day) \o AppFileRows(tr, shapes, y + 1, day)

AppTailRows(n) == [i \in 1..n |-> [dt |-> NaT, day |-> 0, v |-> AppValue("flat", 0, i)]]

AppStart(file, rows, w) ==
    /\ appFile = file
    /\ appRows = rows
    /\ widening = w
    /\ appDf = <<>>
    /\ appRaw = <<>>
    /\ tempCorrected = <<>>
    /\ appStats = None
    /\ showBrief = FALSE
    /\ buttonShown = FALSE
    /\ pressed = FALSE
    /\ briefShown = FALSE
    /\ simRate = None
    /\ simRisks = <<>>
    /\ appErr = ""

AppInit ==
    /\ \/ \E c \in AppCases, shapes \in AppShapes :
              AppStart(TRUE,
                       AppTailRows(c[2][1])
                           \o AppFileRows(c[1], shapes, SetMin(AppYears), c[2][2])
                           \o AppTailRows(c[2][3]),
                       c[3])
       \/ \E w \in BOOLEAN : AppStart(FALSE, <<>>, w)
    /\ appPc = "dates"

AppIdle ==
    /\ AppStart(FALSE, <<>>, FALSE)
    /\ appPc = "idle"

AppNext ==
    \/ AppDates
    \/ AppTrain
    \/ AppCorrect
    \/ AppRerun

(***************************************************************************)
(* Specifications: one per component, the other components idle.           *)
(***************************************************************************)
ScanIdle ==
    /\ sYears = <<>>
    /\ sValues = <<>>
    /\ candLo = 0
    /\ candHi = 0
    /\ minSeg = 0
    /\ cand = 0
    /\ best = NoChangePoint
    /\ scanPc = "idle"

FitIdle ==
    /\ fitX = <<>>
    /\ fitY = <<>>
    /\ fitOut = [slope |-> NaN, intercept |-> NaN]
    /\ fitPc = "idle"

ScanNext == ScanStep \/ ScanReturn

InitScan == ScanInit /\ FitIdle /\ PageIdle /\ ConcIdle /\ PulseIdle /\ AnIdle /\ AccIdle /\ AppIdle

SpecScan == InitScan /\ [][ScanNext]_vars

FitNext == FitCall

InitFit == FitInit /\ ScanIdle /\ PageIdle /\ ConcIdle /\ PulseIdle /\ AnIdle /\ AccIdle /\ AppIdle

InitTrends == PageInit /\ ScanIdle /\ FitIdle /\ ConcIdle /\ PulseIdle /\ AnIdle /\ AccIdle /\ AppIdle

BandNext ==
    \/ BandGuard
    \/ BootSample
    \/ BootBand

InitBand == BandInit /\ ScanIdle /\ FitIdle /\ ConcIdle /\ PulseIdle /\ AnIdle /\ AccIdle /\ AppIdle

SpecBand == InitBand /\ [][BandNext]_vars

InitConc == ConcInit /\ ScanIdle /\ FitIdle /\ PageIdle /\ PulseIdle /\ AnIdle /\ AccIdle /\ AppIdle

SpecConc == InitConc /\ [][ConcNext]_vars

InitPulse == PulseInit /\ ScanIdle /\ FitIdle /\ PageIdle /\ ConcIdle /\ AnIdle /\ AccIdle /\ AppIdle

SpecPulse == InitPulse /\ [][PulseNext]_vars

InitAnalyze == AnInit /\ ScanIdle /\ FitIdle /\ PageIdle /\ ConcIdle /\ PulseIdle /\ AccIdle /\ AppIdle

SpecAnalyze == InitAnalyze /\ [][AnNext]_vars

InitAccel == AccInit /\ ScanIdle /\ FitIdle /\ PageIdle /\ ConcIdle /\ PulseIdle /\ AnIdle /\ AppIdle

SpecAccel == InitAccel /\ [][AccNext]_vars

InitApp ==
    AppInit /\ ScanIdle /\ FitIdle /\ PageIdle /\ ConcIdle /\ PulseIdle /\ AnIdle /\ AccIdle

SpecApp == InitApp /\ [][AppNext]_vars

SpecTrends == InitTrends /\ [][PageNext]_vars

SpecFit == InitFit /\ [][FitNext]_vars

(***************************************************************************)
(* Claims about the change-point scan                                      *)
(***************************************************************************)
CandRange == candLo..candHi

\* Candidate Y leaves at least minSegmentLength points on both sides.
PartsOK(Y) ==
    /\ Cardinality({i \in 1..Len(sYears) : sYears[i] <= Y}) >= minSeg
    /\ Cardinality({i \in 1..Len(sYears) : sYears[i] > Y}) >= minSeg

ScoreOf(Y) == SplitScore(sYears, sValues, Y)

\* C1: the scan returns an eligible candidate of minimal score (left RSS +
\* right RSS), and among the eligible candidates of minimal score the
\* smallest year.
Thm_C1 ==
    scanPc = "done" =>
        \A Y \in CandRange :
            PartsOK(Y) =>
                /\ best.found
                /\ best.year \in CandRange
                /\ PartsOK(best.year)
                /\ QEq(best.score, ScoreOf(best.year))
                /\ ~QLess(ScoreOf(Y), best.score)
                /\ (QEq(ScoreOf(Y), best.score) => best.year <= Y)

\* A scan that passed a strictly worse candidate before the one it returns
\* and an equally good one after it.
Wit_C1 ==
    /\ scanPc = "done"
    /\ best.found
    /\ \E Y \in CandRange : Y < best.year /\ PartsOK(Y) /\ QLess(best.score, ScoreOf(Y))
    /\ \E Y \in CandRange : Y > best.year /\ PartsOK(Y) /\ QEq(best.score, ScoreOf(Y))

\* C2: the scan ends with "no change point found" exactly when no candidate
\* of the range leaves minSegmentLength points on both sides; a year it
\* returns is in the range and leaves that many points on both sides.
Thm_C2 ==
    scanPc = "done" =>
        /\ ~best.found <=> ~(\E Y \in CandRange : PartsOK(Y))
        /\ best.found => best.year \in CandRange /\ PartsOK(best.year)

\* A scan over a non-empty range of a series that ends with nothing found.
Wit_C2 ==
    /\ scanPc = "done"
    /\ ~best.found
    /\ candLo <= candHi
    /\ \E Y \in CandRange : Cardinality({i \in 1..Len(sYears) : sYears[i] <= Y}) >= minSeg

IsTwoSeg(j) == sYears = TwoSegYears /\ sValues = TwoSegValues(j) /\ minSeg = DefaultMinSeg

\* C3 as stated: on the two-segment series the scan over a range containing
\* 1950 returns 1950 with score 0 and no other eligible candidate scores 0.
Orig_C3 ==
    \A j \in -MaxJump..MaxJump :
        (scanPc = "done" /\ IsTwoSeg(j) /\ SegBreak \in CandRange) =>
            /\ best.found
            /\ best.year = SegBreak
            /\ QIsZero(best.score)
            /\ \A Y \in CandRange :
                   (Y # SegBreak /\ PartsOK(Y)) => ~QIsZero(ScoreOf(Y))

\* C3 amended: the statement holds when the 1950 point is off the second
\* segment's line (jump # 0) and the 1951 point is off the first segment's
\* line (jump # -4).  On the continuous series (jump 0) the 1950 point lies on
\* both lines, the candidates 1949 and 1950 both score 0, and the scan returns
\* the smaller of them that is in the range.  With jump -4 the candidates 1950
\* and 1951 both score 0 and the scan returns 1950.
Thm_C3 ==
    \A j \in -MaxJump..MaxJump :
        (scanPc = "done" /\ IsTwoSeg(j) /\ SegBreak \in CandRange) =>
            /\ best.found
            /\ QIsZero(best.score)
            /\ (j \notin {0, -4} =>
                   /\ best.year = SegBreak
                   /\ \A Y \in CandRange :
                          (Y # SegBreak /\ PartsOK(Y)) => ~QIsZero(ScoreOf(Y)))
            /\ (j = 0 =>
                   /\ QIsZero(ScoreOf(SegBreak - 1))
                   /\ QIsZero(ScoreOf(SegBreak))
                   /\ best.year = IF SegBreak - 1 \in CandRange THEN SegBreak - 1
                                  ELSE SegBreak)
            /\ (j = -4 =>
                   /\ QIsZero(ScoreOf(SegBreak + 1))
                   /\ best.year = SegBreak)

\* A finished scan of a two-segment series with a jump, over a range with
\* candidates on both sides of 1950, that returned 1950.
Wit_C3 ==
    /\ scanPc = "done"
    /\ \E j \in -MaxJump..MaxJump : j \notin {0, -4} /\ IsTwoSeg(j)
    /\ candLo < SegBreak /\ SegBreak < candHi
    /\ best.found /\ best.year = SegBreak

(***************************************************************************)
(* Claims about the trend fit                                              *)
(***************************************************************************)
GridK == 4

\* The lines slope = a/2, value at FitYear0 = c/2, for a, c in -GridK..GridK:
\* as (slope, intercept) pairs.
GridFits ==
    {[slope |-> RNorm(a, 2), intercept |-> RSub(RNorm(c, 2), RMul(RNorm(a, 2), R(FitYear0)))] :
        a \in -GridK..GridK, c \in -GridK..GridK}

\* C5: for a series with at least 2 distinct years, no (slope, intercept) pair
\* of the grid has a strictly lower summed squared error than the pair the fit
\* returned.
Thm_C5 ==
    (fitPc = "done" /\ DistinctYears(fitX) >= 2) =>
        LET e == SqErr(fitOut, fitX, fitY)
        IN  \A g \in GridFits : ~RLt(SqErr(g, fitX, fitY), e)

\* A fit of points that are not on a line, with repeated years, that a grid
\* pair equals, and that another grid pair with the same slope misses.
Wit_C5 ==
    /\ fitPc = "done"
    /\ DistinctYears(fitX) >= 2
    /\ DistinctYears(fitX) < Len(fitX)
    /\ RLt(R(0), SqErr(fitOut, fitX, fitY))
    /\ fitOut \in GridFits
    /\ \E g \in GridFits : g.slope = fitOut.slope /\ RLt(SqErr(fitOut, fitX, fitY), SqErr(g, fitX, fitY))

(***************************************************************************)
(* Claims about the Global Trends page (SpecTrends, SpecBand).             *)
(***************************************************************************)
PastFit == {"before", "guard", "boot", "draw", "metrics", "done", "error"}

\* C4 (as stated): a fit asked for on a series with fewer than 2 distinct
\* years is rejected with InsufficientPoints; no slope is kept as a result of
\* it and no warming rate derived from it is reported.
Orig_C4 ==
    (pagePc \in PastFit /\ Len(years) >= 1 /\ DistinctYears(years) < 2)
        => (pageErr = "InsufficientPoints" /\ ~trend.some /\ ~warmRate.shown)

OnLine(v, i) == v[i] = R(LineValue(years[i]))

\* C6 (as stated): on value = 2 * year - 3000 over 1900..2000 every resample
\* refits to that line, and the band's low and high both equal the line at
\* every original year.
Orig_C6 ==
    /\ bootI >= 1 => bootFit = [slope |-> R(2), intercept |-> R(LineValue(0))]
    /\ uLow.some =>
           \A i \in 1..Len(years) : OnLine(uLow.v, i) /\ OnLine(uHigh.v, i)

\* C7 (as stated): every band produced has low and high of the length of the
\* year sequence, and low[i] <= high[i] at every position.
Orig_C7 ==
    uLow.some =>
        /\ uHigh.some
        /\ Len(uLow.v) = Len(years)
        /\ Len(uHigh.v) = Len(years)
        /\ \A i \in 1..Len(years) : RLe(uLow.v[i], uHigh.v[i])

Thm_C9 ==
    bootI >= 1 =>
        /\ Len(bootIdx) = Len(years)
        /\ Len(bootX) = Len(years)
        /\ Len(bootY) = Len(years)
        /\ \A k \in 1..Len(years) :
               /\ bootIdx[k] \in 1..Len(years)
               /\ bootX[k] = years[bootIdx[k]]
               /\ bootY[k] = temps[bootIdx[k]]
        /\ bootFit = PolyFit(bootX, bootY)
        /\ Len(preds) = bootI
        /\ Len(preds[bootI]) = Len(years)
        /\ \A i \in 1..Len(years) : preds[bootI][i] = Predict(bootFit, years[i])

\* C9 witness: a second sample drawn from two indices in turns, from a series
\* with distinct values at them, so the sample's years are not the original
\* years and the fit is defined.
Wit_C9 ==
    /\ bootI = 2
    /\ bootX # years
    /\ DistinctYears(bootX) = 2
    /\ DistinctYears(bootY) = 2
    /\ ~IsNaN(bootFit.slope)
    /\ bootFit.slope # R(0)

PastPrepare == PastFit \cup {"fit"}

BaselineYears == BaselineFirst..BaselineLast

\* C16 (as stated): when no annual value falls in 1850..1900 the baseline
\* computation fails with InsufficientBaselineData, and no baseline and no
\* anomaly value is produced.
Orig_C16 ==
    (pagePc \in PastPrepare /\ FilterYears(data, yearRange) \cap BaselineYears = {})
        => (pageErr = "InsufficientBaselineData" /\ temps = <<>>)

\* C19 (as stated): the baseline subtracted to form the anomalies is the mean
\* of the loaded data's annual values for 1850..1900, the same for every
\* selection of the analysis period on that data.
Orig_C19 ==
    pagePc \in PastPrepare =>
        /\ baseline = Baseline(data, FullRange(data))
        /\ \A i \in 1..Len(years) :
               years[i] \in DOMAIN data
                   => temps[i] = RSub(data[years[i]], Baseline(data, FullRange(data)))

(***************************************************************************)
(* Claims about concurrent script runs (SpecConc).                         *)
(***************************************************************************)
\* What a Scenario Explorer run draws when it runs alone: the first runN
\* values of the stream of seed 7.
ScenarioAlone(r) == <<[seed |-> ScenarioSeed, from |-> 0, count |-> runN[r]]>>

\* C10 (as stated): under every interleaving of two runs, each run produces
\* the result it produces when run alone with the same inputs and seed; for a
\* Scenario Explorer run, the simulated rates it draws after seeding with 7.
Orig_C10 ==
    \A r \in Runs :
        (runPage[r] = "scenario" /\ runPc[r] = "done") => runOut[r] = ScenarioAlone(r)

\* C11 (as stated): two bootstrap band estimates over the same series, in a
\* process whose generator was seeded with the same seed, are equal: the two
\* runs resample with the same indices.
Orig_C11 ==
    (/\ \A r \in Runs : runPage[r] = "trends" /\ runPc[r] = "done"
     /\ runN[1] = runN[2])
        => runOut[1] = runOut[2]

(***************************************************************************)
(* Claims about the Risk Pulse page (SpecPulse).                           *)
(***************************************************************************)
PastGuard == {"rolling", "scores", "rescale", "alerts", "done", "error"}

PastScores == {"rescale", "alerts", "done", "error"}

\* C12 (as stated): every value of the pulse index put out is a defined
\* number between 0 and 100.
Orig_C12 ==
    pulseIndex.some =>
        \A i \in 1..Len(pulseIndex.v) :
            RLe(R(0), pulseIndex.v[i]) /\ RLe(pulseIndex.v[i], R(PulseTop))

\* C13 (as stated): when one of the three series to standardise has zero
\* variance, DegenerateVariance is reported and no index value is put out.
Orig_C13 ==
    (pulsePc \in PastScores /\ \E j \in 1..3 : stdDevs[j] = R(0))
        => (pulseErr = "DegenerateVariance" /\ ~pulseIndex.some /\ ~latestPulse.some)

\* C14: when len(values) <= window the run shows the warning and stops there:
\* no rolling statistic, composite, index, alert or risk state exists in any
\* state after the guard; and the run stops at the guard for no other series.
Thm_C14 ==
    /\ (pulsePc \notin {"idle", "load", "guard"} /\ Len(pValues) <= window)
           => /\ pulsePc = "stopped"
              /\ pulseMsg = "Not enough data for the selected window."
              /\ rollingMean = <<>> /\ rollingStd = <<>> /\ accel = <<>>
              /\ rollYears = <<>> /\ rollMean = <<>> /\ pulseRaw = <<>>
              /\ ~pulseIndex.some /\ ~latestPulse.some /\ ~alerts.some
              /\ riskState = ""
    /\ pulsePc = "stopped" => Len(pValues) <= window
    /\ pulsePc \in PastGuard => pulseMsg = ""

\* C14 witness: a run stopped by the guard on a series exactly as long as
\* the window.
Wit_C14 ==
    /\ pulsePc = "stopped"
    /\ Len(pValues) = window
    /\ window >= 10

\* C15 (as stated): for n values and a window w < n the pulse series has
\* n - w + 1 entries, the k-th labelled with the year at position w - 1 + k,
\* its rolling mean the mean of values[k .. k + w - 1].
Orig_C15 ==
    pulsePc \in PastScores =>
        LET n == Len(pValues)
        IN  /\ Len(rollYears) = n - window + 1
            /\ Len(rollMean) = n - window + 1
            /\ Len(pulseRaw) = n - window + 1
            /\ pulseIndex.some => Len(pulseIndex.v) = n - window + 1
            /\ \A k \in 1..Len(rollYears) :
                   /\ rollYears[k] = pYears[window - 1 + k]
                   /\ rollMean[k] = NpMean(WindowAt(pValues, window, window - 1 + k))

Increasing(ys) == \A i \in 1..(Len(ys) - 1) : ys[i] < ys[i + 1]

\* C17 (as stated): the anomaly series has exactly one entry for each year
\* that has rows and none for a year without, in increasing order of year,
\* each entry that year's annual mean minus the baseline.
Orig_C17 ==
    pulsePc \notin {"idle", "load"} =>
        /\ Len(pYears) = Cardinality(DOMAIN pulseData)
        /\ {pYears[i] : i \in 1..Len(pYears)} = DOMAIN pulseData
        /\ Increasing(pYears)
        /\ \A i \in 1..Len(pYears) :
               pYears[i] \in DOMAIN pulseData
                   => pValues[i] = RSub(pulseData[pYears[i]],
                                        Baseline(pulseData, FullRange(pulseData)))

PastAnnual == {"baseline", "trend", "report", "done"}

\* The observations that count: the rows of the file with a temperature and
\* a date, the repaired dates included.
ValidObs == WithValue(WithDate(RepairDates(csvRows)))

KeptYears == {dfAnnual[k].year : k \in 1..Len(dfAnnual)}

\* C18: the strict variant keeps exactly the years with at least 12 valid
\* observations, and the number of dropped years it prints is the number of
\* years with at least one and fewer than 12 valid observations.
Orig_C18 ==
    anPc \in PastAnnual =>
        LET obs == ValidObs
            count(y) == Cardinality(RowsOf(obs, y))
        IN  /\ KeptYears = {y \in RowYears(obs) : count(y) >= MinMonths}
            /\ droppedMsg.some
            /\ droppedMsg.v = Cardinality({y \in RowYears(obs) : count(y) < MinMonths})

\* C20: every rate per decade reported is ten times the least-squares slope
\* of the anomaly against the calendar year, also when the fitted years are
\* not consecutive.
Orig_C20 ==
    (anPc \in {"report", "done"} /\ trendMsg.some) =>
        LET recent == RecentData(dfAnnual)
            x == [k \in 1..Len(recent) |-> recent[k].year]
            y == [k \in 1..Len(recent) |-> recent[k].anomaly]
        IN  trendMsg.v = RMul(PolyFit(x, y).slope, R(PerDecade))

NoNaN(seq) == \A i \in 1..Len(seq) : ~IsNaN(seq[i])

\* C22: at every retained position of the risk pulse the acceleration and
\* the rolling standard deviation are defined as well, so the raw composite
\* and the latest pulse index are computed from defined numbers only.
Orig_C22 ==
    pulsePc \in PastScores =>
        /\ NoNaN(rollStd)
        /\ NoNaN(rollAcc)
        /\ NoNaN(pulseRaw)
        /\ latestPulse.some => ~IsNaN(latestPulse.v)

MidPoints == Cardinality(Period(accYears, MidFirst, RecentFirst))

RecentPoints == Cardinality(PeriodFrom(accYears, RecentFirst))

\* C23: the Recent Acceleration page shows "Not enough data" if and only if
\* the 1900-1980 period or the post-1980 period has fewer than 5 annual
\* points; with at least 5 points in both, it shows the accelerated message
\* when the recent rate is greater than the mid rate and the modest one
\* otherwise.
Orig_C23 ==
    accPc = "done" =>
        /\ accMsg = "warning" <=> (MidPoints < MinPoints \/ RecentPoints < MinPoints)
        /\ (MidPoints >= MinPoints /\ RecentPoints >= MinPoints) =>
               accMsg = IF RLt(midRate.v, recentRate.v) THEN "success" ELSE "info"

SomeNull(rows) == \E i \in 1..Len(rows) : rows[i].dt = NaT

\* The repair as claimed: the k-th row after the last row with a date gets
\* the first day of the k-th month after the month of that date, no other
\* row changes.
ClaimedRepair(rows) ==
    LET last == LastValid(rows, Len(rows))
    IN  [i \in 1..Len(rows) |->
            IF last > 0 /\ i > last
            THEN [dt |-> rows[last].dt + (i - last), day |-> 1, v |-> rows[i].v]
            ELSE rows[i]]

PastAppDates == {"train", "correct", "ready", "crashed"}

\* C21: when a timestamp is null, the k-th row after the last row with a
\* valid timestamp gets the month start k months after it, no timestamp at
\* or before that row changes, and the rows whose timestamp is still null
\* are discarded before any annual value is computed: the frame the annual
\* values are computed from is the claimed repair without its null rows.
Orig_C21 ==
    (appFile /\ appPc \in PastAppDates /\ SomeNull(appRows)) =>
        appDf = WithDate(ClaimedRepair(appRows))

Returned == appPc = "ready" /\ appStats.some

DatedIn2017(row) == row.dt \in MonthOf(2017, 1)..MonthOf(2017, 12)

\* C24: load_and_correct_data changes only the corrected column of the rows
\* dated in 2017: for every other row Temp_Corrected is the row's original
\* temperature, the temperature column of every row is the one read, and
\* the raw copy is the data as it was before the correction.
Thm_C24 ==
    Returned =>
        /\ Len(appDf) = Len(appRows)
        /\ Len(tempCorrected) = Len(appRows)
        /\ \A i \in 1..Len(appRows) :
               /\ ~DatedIn2017(appDf[i]) => tempCorrected[i] = appRows[i].v
               /\ appDf[i].v = appRows[i].v
        /\ appRaw = appDf

\* C24 witness: the function has returned a frame in which a row of 2017
\* got a corrected value that differs from its temperature, next to rows of
\* other years and a row without a date.
Wit_C24 ==
    /\ Returned
    /\ \E i \in 1..Len(appDf) : DatedIn2017(appDf[i]) /\ tempCorrected[i] # appDf[i].v
    /\ \E i \in 1..Len(appDf) : appDf[i].dt > MonthOf(2017, 12)
    /\ \E i \in 1..Len(appDf) : appDf[i].dt = NaT

\* The place of the coastal inundation risk in sim_risks
Coastal == 2

\* C25: in the Scenario Simulator, for every projected warming rate from 0.0
\* to 0.5 degrees per decade and every current anomaly, the level of the
\* coastal inundation risk that get_risk_assessment returns is Low.
Thm_C25 ==
    (simRisks # <<>> /\ InRange(simRate.v, SimRateMin, SimRateMax)) =>
        simRisks[Coastal] = "Low"

\* C25 witness: the simulator has assessed the highest rate of the range,
\* 0.5 degrees per decade, together with an anomaly that makes the heat
\* risk critical, and the coastal risk is low.
Wit_C25 ==
    /\ simRisks # <<>>
    /\ simRate.v = SimRateMax
    /\ simRisks[1] = "Critical"
    /\ simRisks[Coastal] = "Low"

\* C26: the policy brief is not rendered before the button is first
\* pressed; once it has been pressed the show_brief flag is true and the
\* brief is rendered by every run; no step resets the flag.
Thm_C26 ==
    /\ [](briefShown => pressed)
    /\ [](showBrief => pressed)
    /\ [](pressed => showBrief /\ briefShown)
    /\ [][showBrief => showBrief']_vars

\* C26 witness: the button has been pressed, and a run in which the
\* simulator was set to another rate than the slider's default has rendered
\* the brief.
Wit_C26 ==
    /\ pressed
    /\ showBrief
    /\ briefShown
    /\ simRisks # <<>>
    /\ simRate.v # RMul(appStats.v.slope, R(PerDecade))

====
